---- MODULE Spec2Model ----
(***************************************************************************)
(* A model of the ctkr construct graph engine: the Client's typed creation *)
(* operations and raw CRUD over attached stores, the store contract        *)
(* (AbstractStore / InMemoryStore), and the FunctorBuilder.                *)
(*                                                                         *)
(* Construct ids are UUIDs in the program; here the n-th construct ever    *)
(* created has id n, so an id is never reused and the listing order of a   *)
(* store (Map insertion order) is ascending id order.  Metadata (names,    *)
(* timestamps) is left out: no operation modelled here branches on it.     *)
(***************************************************************************)
EXTENDS Integers, Sequences, FiniteSets, TLC

VARIABLES
    attached,     \* Client.stores: ids of the attached stores, in attachment order
    db,           \* all constructs ever created, by id: [type, store, version, live, data]
    outcome,      \* how the last operation ended: "ok" or "throw"
    lastOp,       \* the last operation and its arguments / results
    rawOps,       \* number of raw updateCTC / deleteCTC calls issued so far
    bStore,       \* FunctorBuilder._store (Nil = null)
    bSource,      \* FunctorBuilder._sourceCategory (Nil = null)
    bTarget,      \* FunctorBuilder._targetCategory (Nil = null)
    manual,       \* FunctorBuilder._manualObjectMappings, in Map insertion order
    derived,      \* FunctorBuilder._derivedObjectMappings, in Map insertion order
    morMap,       \* FunctorBuilder._morphismMappings, in Map insertion order
    srcCache,     \* FunctorBuilder._sourceCategoryData
    tgtCache,     \* FunctorBuilder._targetCategoryData
    qe,           \* Client._queryEngine: the store list it was built from, or invalid
    pc,           \* per concurrent caller: position inside createObject
    loc           \* per concurrent caller: the locals of createObject / addIdToArray

vars == <<attached, db, outcome, lastOp, rawOps, bStore, bSource, bTarget, manual,
          derived, morMap, srcCache, tgtCache, qe, pc, loc>>

builderVars == <<bStore, bSource, bTarget, manual, derived, morMap, srcCache, tgtCache>>
procVars == <<pc, loc>>

----------------------------------------------------------------------------
(* Bounds *)

MaxStores == 1
MaxCategories == 1
MaxObjects == 2
MaxMorphisms == 1
MaxFunctors == 1
MaxRawOps == 1

Nil == 0

Stores == 1..MaxStores

----------------------------------------------------------------------------
(* Construct payloads (types/index.ts Create*Input).  A field a variant    *)
(* does not carry is absent in the program; here it holds Nil or <<>>.     *)

NoData ==
    [categoryId |-> Nil, sourceId |-> Nil, targetId |-> Nil, isIdentity |-> FALSE,
     identityMorphismId |-> Nil, morphismsFromIds |-> <<>>, morphismsToIds |-> <<>>,
     objectIds |-> <<>>, morphismIds |-> <<>>, functorsFromIds |-> <<>>,
     functorsToIds |-> <<>>, sourceCategoryId |-> Nil, targetCategoryId |-> Nil,
     objectMappingIds |-> <<>>, morphismMappingIds |-> <<>>, functorId |-> Nil,
     sourceObjectId |-> Nil, targetObjectId |-> Nil, sourceMorphismId |-> Nil,
     targetMorphismId |-> Nil]

CategoryInput == NoData

ObjectInput(categoryId) == [NoData EXCEPT !.categoryId = categoryId]

MorphismInput(sourceId, targetId, categoryId, isIdentity) ==
    [NoData EXCEPT !.sourceId = sourceId, !.targetId = targetId,
                   !.categoryId = categoryId, !.isIdentity = isIdentity]

FunctorInput(sourceCategoryId, targetCategoryId) ==
    [NoData EXCEPT !.sourceCategoryId = sourceCategoryId,
                   !.targetCategoryId = targetCategoryId]

ObjectMappingInput(functorId, sourceObjectId, targetObjectId) ==
    [NoData EXCEPT !.functorId = functorId, !.sourceObjectId = sourceObjectId,
                   !.targetObjectId = targetObjectId]

MorphismMappingInput(functorId, sourceMorphismId, targetMorphismId) ==
    [NoData EXCEPT !.functorId = functorId, !.sourceMorphismId = sourceMorphismId,
                   !.targetMorphismId = targetMorphismId]

Range(s) == {s[i] : i \in DOMAIN s}

----------------------------------------------------------------------------
(* Signature *)

createSignature(storeId) == [store |-> storeId, version |-> 1]

keepVersion(version) == version

incrementVersion(version) == version + 1

----------------------------------------------------------------------------
(* The store contract, on the table d of all constructs *)

Ids(d) == 1..Len(d)

Has(d, s, id) == id \in Ids(d) /\ d[id].live /\ d[id].store = s

StoreCreate(d, s, type, data) ==
    Append(d, [type |-> type, store |-> createSignature(s).store,
               version |-> createSignature(s).version, live |-> TRUE, data |-> data])

StoreUpdate(d, s, id, data) ==
    [d EXCEPT ![id].version = incrementVersion(@), ![id].data = data]

Without(array, id) == SelectSeq(array, LAMBDA x : x # id)

StoreDeleteRetracting(d, s, id) ==
    [i \in DOMAIN d |->
        IF i = id THEN [d[i] EXCEPT !.live = FALSE]
        ELSE [d[i] EXCEPT !.data.objectIds = Without(@, id),
                          !.data.morphismIds = Without(@, id),
                          !.data.morphismsFromIds = Without(@, id),
                          !.data.morphismsToIds = Without(@, id)]]

StoreDelete(d, s, id) == [d EXCEPT ![id].live = FALSE]

StoreList(d, s, type) ==
    SelectSeq([i \in Ids(d) |-> i], LAMBDA i : Has(d, s, i) /\ d[i].type = type)

----------------------------------------------------------------------------
(* Client: private helpers *)

RECURSIVE FirstHolding(_, _, _, _)
FirstHolding(d, att, id, i) ==
    IF i > Len(att) THEN Nil
    ELSE IF Has(d, att[i], id) THEN att[i]
    ELSE FirstHolding(d, att, id, i + 1)

findNoStore(d, att, id) == Nil

findStoreFor(d, att, id) == FirstHolding(d, att, id, 1)

OrElse(found, fallback) == IF found = Nil THEN fallback ELSE found

OnlyAppended(data, field, newId) == [NoData EXCEPT ![field] = Append(data[field], newId)]

WithAppended(data, field, newId) == [data EXCEPT ![field] = Append(@, newId)]

AppendUnread(d, id, s, field, newId) ==
    IF id \notin Ids(d) THEN d
    ELSE StoreUpdate(d, s, id, WithAppended(d[id].data, field, newId))

addIdToArray(d, id, s, field, newId) ==
    IF ~Has(d, s, id) THEN d
    ELSE IF newId \in Range(d[id].data[field]) THEN d
    ELSE StoreUpdate(d, s, id, WithAppended(d[id].data, field, newId))

----------------------------------------------------------------------------
(* Client: typed creation, as the table each call leaves behind when every *)
(* store call resolves.  The caller's store s is attached (createCTC).     *)

NewId(d) == Len(d) + 1

createCategory(d, att, s) == StoreCreate(d, s, "Category", CategoryInput)

IdentityArraysOnly(data, identityId) ==
    [data EXCEPT !.morphismsFromIds = <<identityId>>,
                 !.morphismsToIds = <<identityId>>]

IdentityUpdate(data, identityId) ==
    [data EXCEPT !.identityMorphismId = identityId,
                 !.morphismsFromIds = <<identityId>>,
                 !.morphismsToIds = <<identityId>>]

createObject(d, att, s, categoryId) ==
    LET data == ObjectInput(categoryId)
        d1 == StoreCreate(d, s, "Object", data)
        objectId == NewId(d)
        d2 == IF categoryId # Nil
              THEN addIdToArray(d1, categoryId, OrElse(findStoreFor(d1, att, categoryId), s),
                                "objectIds", objectId)
              ELSE d1
        d3 == StoreCreate(d2, s, "Morphism", MorphismInput(objectId, objectId, categoryId, TRUE))
        identityId == NewId(d2)
        d4 == StoreUpdate(d3, s, objectId, IdentityUpdate(data, identityId))
    IN  IF categoryId # Nil
        THEN addIdToArray(d4, categoryId, OrElse(findStoreFor(d4, att, categoryId), s),
                          "morphismIds", identityId)
        ELSE d4

createMorphism(d, att, sourceId, targetId, s, categoryId) ==
    LET d1 == StoreCreate(d, s, "Morphism", MorphismInput(sourceId, targetId, categoryId, FALSE))
        morphismId == NewId(d)
        d2 == IF categoryId # Nil
              THEN addIdToArray(d1, categoryId, OrElse(findStoreFor(d1, att, categoryId), s),
                                "morphismIds", morphismId)
              ELSE d1
        d3 == addIdToArray(d2, sourceId, OrElse(findStoreFor(d2, att, sourceId), s),
                           "morphismsFromIds", morphismId)
    IN  addIdToArray(d3, targetId, OrElse(findStoreFor(d3, att, targetId), s),
                     "morphismsToIds", morphismId)

createFunctor(d, att, sourceCategoryId, targetCategoryId, s) ==
    LET d1 == StoreCreate(d, s, "Functor", FunctorInput(sourceCategoryId, targetCategoryId))
        functorId == NewId(d)
        d2 == addIdToArray(d1, sourceCategoryId,
                           OrElse(findStoreFor(d1, att, sourceCategoryId), s),
                           "functorsFromIds", functorId)
    IN  addIdToArray(d2, targetCategoryId,
                     OrElse(findStoreFor(d2, att, targetCategoryId), s),
                     "functorsToIds", functorId)

addObjectMapping(d, att, functorId, sourceObjectId, targetObjectId, s) ==
    LET d1 == StoreCreate(d, s, "ObjectMapping",
                          ObjectMappingInput(functorId, sourceObjectId, targetObjectId))
    IN  addIdToArray(d1, functorId, OrElse(findStoreFor(d1, att, functorId), s),
                     "objectMappingIds", NewId(d))

addMorphismMapping(d, att, functorId, sourceMorphismId, targetMorphismId, s) ==
    LET d1 == StoreCreate(d, s, "MorphismMapping",
                          MorphismMappingInput(functorId, sourceMorphismId, targetMorphismId))
    IN  addIdToArray(d1, functorId, OrElse(findStoreFor(d1, att, functorId), s),
                     "morphismMappingIds", NewId(d))

----------------------------------------------------------------------------
(* Views of the table used by guards and properties *)

LiveIds(d, type) == {i \in Ids(d) : d[i].live /\ d[i].type = type}

Count(d, type) == Cardinality({i \in Ids(d) : d[i].type = type})

UserMorphisms(d) == {i \in Ids(d) : d[i].type = "Morphism" /\ ~d[i].data.isIdentity}

IsAttached(att, s) == s \in Range(att)

Op(op, id, a, b, c) == [op |-> op, id |-> id, a |-> a, b |-> b, c |-> c]

----------------------------------------------------------------------------
(* Client: store registry and the lazily built query engine *)

NoEngine == [valid |-> FALSE, stores |-> <<>>]

queryEngineReversed(q, att) ==
    IF q.valid THEN q
    ELSE [valid |-> TRUE, stores |-> [i \in DOMAIN att |-> att[Len(att) + 1 - i]]]

queryEngine(q, att) == IF q.valid THEN q ELSE [valid |-> TRUE, stores |-> att]

MapSetStore(att, s) == IF s \in Range(att) THEN att ELSE Append(att, s)

attachStore(s) ==
    /\ attached' = MapSetStore(attached, s)
    /\ qe' = NoEngine
    /\ outcome' = "ok"
    /\ lastOp' = Op("attachStore", Nil, s, Nil, Nil)
    /\ UNCHANGED <<db, rawOps, builderVars, procVars>>

detachStore(s) ==
    /\ attached' = SelectSeq(attached, LAMBDA x : x # s)
    /\ qe' = NoEngine
    /\ outcome' = "ok"
    /\ lastOp' = Op("detachStore", Nil, s, Nil, Nil)
    /\ UNCHANGED <<db, rawOps, builderVars, procVars>>

----------------------------------------------------------------------------
(* Client operations issued one at a time: each action is one whole call.  *)
(* createCTC throws before any store call when the store is not attached.  *)

Throws(op, a, b, c) ==
    /\ outcome' = "throw"
    /\ lastOp' = Op(op, Nil, a, b, c)
    /\ UNCHANGED <<attached, db, qe, rawOps, builderVars, procVars>>

Returns(op, newDb, id, a, b, c) ==
    /\ db' = newDb
    /\ qe' = queryEngine(qe, attached)
    /\ outcome' = "ok"
    /\ lastOp' = Op(op, id, a, b, c)
    /\ UNCHANGED <<attached, rawOps, builderVars, procVars>>

CreateCategory(s) ==
    IF ~IsAttached(attached, s)
    THEN Throws("createCategory", s, Nil, Nil)
    ELSE Returns("createCategory", createCategory(db, attached, s), NewId(db), s, Nil, Nil)

CreateObject(s, categoryId) ==
    IF ~IsAttached(attached, s)
    THEN Throws("createObject", s, categoryId, Nil)
    ELSE Returns("createObject", createObject(db, attached, s, categoryId), NewId(db),
                 s, categoryId, Nil)

CreateMorphism(sourceId, targetId, s, categoryId) ==
    IF ~IsAttached(attached, s)
    THEN Throws("createMorphism", sourceId, targetId, categoryId)
    ELSE Returns("createMorphism",
                 createMorphism(db, attached, sourceId, targetId, s, categoryId),
                 NewId(db), sourceId, targetId, categoryId)

CreateFunctor(sourceCategoryId, targetCategoryId, s) ==
    IF ~IsAttached(attached, s)
    THEN Throws("createFunctor", sourceCategoryId, targetCategoryId, s)
    ELSE Returns("createFunctor",
                 createFunctor(db, attached, sourceCategoryId, targetCategoryId, s),
                 NewId(db), sourceCategoryId, targetCategoryId, s)

(* Raw update: the store replaces the payload by the caller's data.  The   *)
(* store throws when it does not hold the id.                              *)
UpdateCTC(id, data, s) ==
    /\ rawOps' = rawOps + 1
    /\ IF ~IsAttached(attached, s) \/ ~Has(db, s, id)
       THEN /\ outcome' = "throw"
            /\ lastOp' = Op("updateCTC", id, s, Nil, Nil)
            /\ UNCHANGED <<attached, db, qe, builderVars, procVars>>
       ELSE /\ db' = StoreUpdate(db, s, id, data)
            /\ outcome' = "ok"
            /\ lastOp' = Op("updateCTC", id, s, data, Nil)
            /\ UNCHANGED <<attached, qe, builderVars, procVars>>

DeleteCTC(id, s) ==
    /\ rawOps' = rawOps + 1
    /\ IF ~IsAttached(attached, s)
       THEN /\ outcome' = "throw"
            /\ lastOp' = Op("deleteCTC", id, s, Nil, Nil)
            /\ UNCHANGED <<attached, db, qe, builderVars, procVars>>
       ELSE /\ db' = IF Has(db, s, id) THEN StoreDelete(db, s, id) ELSE db
            /\ outcome' = "ok"
            /\ lastOp' = Op("deleteCTC", id, s, Has(db, s, id), Nil)
            /\ UNCHANGED <<attached, qe, builderVars, procVars>>

----------------------------------------------------------------------------
(* Initial state: a fresh Client and a fresh FunctorBuilder *)

NoCache == [loaded |-> FALSE, objects |-> <<>>, morphisms |-> <<>>]

Callers == {1, 2}

NoLocals ==
    [store |-> Nil, categoryId |-> Nil, objectId |-> Nil, identityId |-> Nil,
     holder |-> Nil, existing |-> NoData, r1 |-> 0, w1 |-> 0, r2 |-> 0, w2 |-> 0]

Init ==
    /\ attached = <<>>
    /\ db = <<>>
    /\ qe = NoEngine
    /\ outcome = "ok"
    /\ lastOp = Op("new", Nil, Nil, Nil, Nil)
    /\ rawOps = 0
    /\ bStore = Nil
    /\ bSource = Nil
    /\ bTarget = Nil
    /\ manual = <<>>
    /\ derived = <<>>
    /\ morMap = <<>>
    /\ srcCache = NoCache
    /\ tgtCache = NoCache
    /\ pc = [p \in Callers |-> "idle"]
    /\ loc = [p \in Callers |-> NoLocals]

----------------------------------------------------------------------------
(* SpecCreate: one caller issuing typed creation operations one at a time  *)

IdsOf(d, type) == {i \in Ids(d) : d[i].type = type}

CategoryRefs == {Nil} \cup IdsOf(db, "Category")

CreateCategoryStep ==
    /\ Count(db, "Category") < MaxCategories
    /\ \E s \in Stores : CreateCategory(s)

CreateObjectStep ==
    /\ Count(db, "Object") < MaxObjects
    /\ \E s \in Stores, c \in CategoryRefs : CreateObject(s, c)

CreateMorphismStep ==
    /\ Cardinality(UserMorphisms(db)) < MaxMorphisms
    /\ \E s \in Stores, a \in IdsOf(db, "Object"), b \in IdsOf(db, "Object"),
          c \in CategoryRefs : CreateMorphism(a, b, s, c)

CreateFunctorStep ==
    /\ Count(db, "Functor") < MaxFunctors
    /\ \E s \in Stores, a \in IdsOf(db, "Category"), b \in IdsOf(db, "Category") :
          CreateFunctor(a, b, s)

AttachStep == \E s \in Stores : attachStore(s)

NextCreate ==
    \/ AttachStep
    \/ CreateCategoryStep
    \/ CreateObjectStep
    \/ CreateMorphismStep
    \/ CreateFunctorStep

SpecCreate == Init /\ [][NextCreate]_vars

----------------------------------------------------------------------------
(* SpecGraph: the same caller, also using the raw update and delete        *)

UpdatePayloads(id) == {db[id].data, [NoData EXCEPT !.categoryId = db[id].data.categoryId]}

UpdateStep ==
    /\ rawOps < MaxRawOps
    /\ \E s \in Stores, id \in Ids(db) :
          \E data \in UpdatePayloads(id) : UpdateCTC(id, data, s)

DeleteStep ==
    /\ rawOps < MaxRawOps
    /\ \E s \in Stores, id \in Ids(db) : DeleteCTC(id, s)

NextGraph ==
    \/ NextCreate
    \/ UpdateStep
    \/ DeleteStep

SpecGraph == Init /\ [][NextGraph]_vars

----------------------------------------------------------------------------
(* SpecRace: two callers run createObject concurrently.  A call is         *)
(* suspended at every store call it awaits, so each store call is one      *)
(* step: create, findStoreFor, addIdToArray's read, addIdToArray's update, *)
(* the identity morphism's create, the object's update, and again for      *)
(* morphismIds.  r1/w1 and r2/w2 record the version of the category that   *)
(* the call read and wrote in its two addIdToArray calls.                  *)

Goto(p, label, locals) ==
    /\ pc' = [pc EXCEPT ![p] = label]
    /\ loc' = [loc EXCEPT ![p] = locals]
    /\ UNCHANGED <<attached, qe, outcome, lastOp, rawOps, builderVars>>

AfterObjectCreated(c) == IF c # Nil THEN "find1" ELSE "createIdentity"

Begin(p, s, c) ==
    /\ pc[p] = "idle"
    /\ IF ~IsAttached(attached, s)
       THEN /\ Goto(p, "failed", [NoLocals EXCEPT !.store = s, !.categoryId = c])
            /\ UNCHANGED db
       ELSE /\ db' = StoreCreate(db, s, "Object", ObjectInput(c))
            /\ Goto(p, AfterObjectCreated(c),
                    [NoLocals EXCEPT !.store = s, !.categoryId = c, !.objectId = NewId(db)])

FindHolder(p, from, to) ==
    /\ pc[p] = from
    /\ Goto(p, to, [loc[p] EXCEPT !.holder =
                        OrElse(findStoreFor(db, attached, loc[p].categoryId), loc[p].store)])
    /\ UNCHANGED db

ReadArray(p, from, field, newId, write, skip) ==
    /\ pc[p] = from
    /\ UNCHANGED db
    /\ LET id == loc[p].categoryId
       IN  IF ~Has(db, loc[p].holder, id) THEN Goto(p, skip, loc[p])
           ELSE IF newId \in Range(db[id].data[field]) THEN Goto(p, skip, loc[p])
           ELSE Goto(p, write,
                     IF field = "objectIds"
                     THEN [loc[p] EXCEPT !.existing = db[id].data, !.r1 = db[id].version]
                     ELSE [loc[p] EXCEPT !.existing = db[id].data, !.r2 = db[id].version])

WriteArray(p, from, field, newId, to) ==
    /\ pc[p] = from
    /\ LET id == loc[p].categoryId
       IN  IF ~Has(db, loc[p].holder, id)
           THEN /\ UNCHANGED db
                /\ Goto(p, "failed", loc[p])
           ELSE /\ db' = StoreUpdate(db, loc[p].holder, id,
                                     WithAppended(loc[p].existing, field, newId))
                /\ Goto(p, to,
                        IF field = "objectIds"
                        THEN [loc[p] EXCEPT !.w1 = db[id].version + 1]
                        ELSE [loc[p] EXCEPT !.w2 = db[id].version + 1])

Find1(p) == FindHolder(p, "find1", "read1")

Read1(p) == ReadArray(p, "read1", "objectIds", loc[p].objectId, "write1", "createIdentity")

Write1(p) == WriteArray(p, "write1", "objectIds", loc[p].objectId, "createIdentity")

CreateIdentity(p) ==
    /\ pc[p] = "createIdentity"
    /\ db' = StoreCreate(db, loc[p].store, "Morphism",
                         MorphismInput(loc[p].objectId, loc[p].objectId,
                                       loc[p].categoryId, TRUE))
    /\ Goto(p, "updateObject", [loc[p] EXCEPT !.identityId = NewId(db)])

UpdateObject(p) ==
    /\ pc[p] = "updateObject"
    /\ db' = StoreUpdate(db, loc[p].store, loc[p].objectId,
                         IdentityUpdate(ObjectInput(loc[p].categoryId), loc[p].identityId))
    /\ Goto(p, IF loc[p].categoryId # Nil THEN "find2" ELSE "reread", loc[p])

Find2(p) == FindHolder(p, "find2", "read2")

Read2(p) == ReadArray(p, "read2", "morphismIds", loc[p].identityId, "write2", "reread")

Write2(p) == WriteArray(p, "write2", "morphismIds", loc[p].identityId, "reread")

Reread(p) ==
    /\ pc[p] = "reread"
    /\ UNCHANGED db
    /\ Goto(p, IF Has(db, loc[p].store, loc[p].objectId) THEN "done" ELSE "failed", loc[p])

Quiet == \A p \in Callers : pc[p] = "idle"

NextRace ==
    \/ Quiet /\ AttachStep
    \/ Quiet /\ CreateCategoryStep
    \/ \E p \in Callers, s \in Stores, c \in CategoryRefs : Begin(p, s, c)
    \/ \E p \in Callers : Find1(p)
    \/ \E p \in Callers : Read1(p)
    \/ \E p \in Callers : Write1(p)
    \/ \E p \in Callers : CreateIdentity(p)
    \/ \E p \in Callers : UpdateObject(p)
    \/ \E p \in Callers : Find2(p)
    \/ \E p \in Callers : Read2(p)
    \/ \E p \in Callers : Write2(p)
    \/ \E p \in Callers : Reread(p)

SpecRace == Init /\ [][NextRace]_vars

(* C6: when two creations that append to the same back-reference array     *)
(* overlap, both can complete while the array holds only one of the two    *)
(* new ids; an id is missing only where the other caller wrote the         *)
(* construct after it from a snapshot read before it (the later writer's   *)
(* whole-payload write discards the earlier append).                       *)
BothDone(p, q) ==
    /\ p # q
    /\ pc[p] = "done"
    /\ pc[q] = "done"
    /\ loc[p].categoryId # Nil
    /\ loc[p].categoryId = loc[q].categoryId

Lost(p) == loc[p].objectId \notin Range(db[loc[p].categoryId].data.objectIds)

Overwrote(q, p) ==
    \/ loc[q].w1 # 0 /\ loc[q].r1 < loc[p].w1 /\ loc[p].w1 < loc[q].w1
    \/ loc[q].w2 # 0 /\ loc[q].r2 < loc[p].w1 /\ loc[p].w1 < loc[q].w2

C6_LostOnlyToLaterWriter ==
    \A p \in Callers, q \in Callers :
        (BothDone(p, q) /\ Lost(p)) => (loc[p].w1 # 0 /\ Overwrote(q, p))

C6_Witness ==
    \E p \in Callers, q \in Callers :
        /\ BothDone(p, q)
        /\ Lost(p)
        /\ ~Lost(q)
        /\ loc[p].w1 < loc[q].w1
        /\ loc[q].r1 < loc[p].w1

----------------------------------------------------------------------------
(* Back-reference arrays *)

NoDuplicates(seq) == Cardinality(Range(seq)) = Len(seq)

Exactly(seq, set) == Range(seq) = set /\ NoDuplicates(seq)

ObjectsOf(d, c) == {o \in LiveIds(d, "Object") : d[o].data.categoryId = c}

MorphismsOf(d, c) == {m \in LiveIds(d, "Morphism") : d[m].data.categoryId = c}

FunctorsFrom(d, c) == {f \in LiveIds(d, "Functor") : d[f].data.sourceCategoryId = c}

FunctorsTo(d, c) == {f \in LiveIds(d, "Functor") : d[f].data.targetCategoryId = c}

(* C7: after any sequence of typed creation operations issued one at a    *)
(* time, each Category's objectIds, morphismIds, functorsFromIds and       *)
(* functorsToIds are exactly the ids of the Objects, Morphisms (identity   *)
(* morphisms included) and Functors whose own foreign key names it.        *)
C7_BackReferenceSync ==
    \A c \in LiveIds(db, "Category") :
        /\ Exactly(db[c].data.objectIds, ObjectsOf(db, c))
        /\ Exactly(db[c].data.morphismIds, MorphismsOf(db, c))
        /\ Exactly(db[c].data.functorsFromIds, FunctorsFrom(db, c))
        /\ Exactly(db[c].data.functorsToIds, FunctorsTo(db, c))

C7_Witness ==
    \E c \in LiveIds(db, "Category") :
        /\ Len(db[c].data.objectIds) >= 2
        /\ \E m \in Range(db[c].data.morphismIds) : ~db[m].data.isIdentity
        /\ \E m \in Range(db[c].data.morphismIds) : db[m].data.isIdentity
        /\ db[c].data.functorsFromIds # <<>>
        /\ db[c].data.functorsToIds # <<>>

(* C8: for every Object created through createObject, with or without a   *)
(* category, reading its identityMorphismId yields a Morphism with         *)
(* isIdentity = true and sourceId = targetId = the object's id.            *)
IsIdentityOf(d, att, m, o) ==
    /\ m # Nil
    /\ findStoreFor(d, att, m) # Nil
    /\ d[m].type = "Morphism"
    /\ d[m].data.isIdentity
    /\ d[m].data.sourceId = o
    /\ d[m].data.targetId = o

C8_IdentityExists ==
    \A o \in LiveIds(db, "Object") :
        IsIdentityOf(db, attached, db[o].data.identityMorphismId, o)

C8_Witness ==
    /\ \E o \in LiveIds(db, "Object") : db[o].data.categoryId = Nil
    /\ \E o \in LiveIds(db, "Object") : db[o].data.categoryId # Nil

(* C9 as claimed: once createObject has returned, the object's             *)
(* identityMorphismId stays the same non-null id after any later Client    *)
(* operation that does not delete the object, raw updates included.        *)
C9_Original ==
    [][\A o \in LiveIds(db, "Object") :
          (db[o].data.identityMorphismId # Nil /\ db'[o].live)
              => db'[o].data.identityMorphismId = db[o].data.identityMorphismId]_vars

(* C9 as amended: the identityMorphismId of a created object is left       *)
(* unchanged by every later Client operation other than a raw updateCTC    *)
(* of that object; updateCTC replaces the object's whole payload by the    *)
(* caller's data, so the id survives it only if that data carries it.      *)
UpdatesObject(o) == lastOp'.op = "updateCTC" /\ lastOp'.id = o /\ outcome' = "ok"

C9_IdentityStable ==
    [][\A o \in LiveIds(db, "Object") :
          (db[o].data.identityMorphismId # Nil /\ db'[o].live)
              => IF UpdatesObject(o)
                 THEN db'[o].data = lastOp'.b
                 ELSE db'[o].data.identityMorphismId = db[o].data.identityMorphismId]_vars

C9_Witness ==
    \E o \in LiveIds(db, "Object") :
        /\ db[o].data.identityMorphismId # Nil
        /\ Len(db[o].data.morphismsFromIds) >= 2
        /\ \E i \in Ids(db) : i # o /\ ~db[i].live

----------------------------------------------------------------------------
(* QueryEngine: scans over the engine's stores, in their order *)

Snapshot(d, i) == [id |-> i, data |-> d[i].data]

RECURSIVE ScanStores(_, _, _, _, _, _)
ScanStores(d, stores, type, field, value, i) ==
    IF i > Len(stores) THEN <<>>
    ELSE LET kept == SelectSeq(StoreList(d, stores[i], type),
                               LAMBDA id : d[id].data[field] = value)
         IN  [k \in DOMAIN kept |-> Snapshot(d, kept[k])]
             \o ScanStores(d, stores, type, field, value, i + 1)

getObjectsInCategory(d, stores, categoryId) ==
    ScanStores(d, stores, "Object", "categoryId", categoryId, 1)

getMorphismsInCategory(d, stores, categoryId) ==
    ScanStores(d, stores, "Morphism", "categoryId", categoryId, 1)

getObjectMappings(d, stores, functorId) ==
    ScanStores(d, stores, "ObjectMapping", "functorId", functorId, 1)

getMorphismMappings(d, stores, functorId) ==
    ScanStores(d, stores, "MorphismMapping", "functorId", functorId, 1)

----------------------------------------------------------------------------
(* FunctorBuilder: its three Maps, as sequences of entries in insertion    *)
(* order.  An entry is [src, tgt, from]; from is the fromMorphismId of a   *)
(* derived entry and Nil in the other two Maps.                            *)

Entry(src, tgt, from) == [src |-> src, tgt |-> tgt, from |-> from]

MapHas(m, k) == \E i \in DOMAIN m : m[i].src = k

MapGet(m, k) == m[CHOOSE i \in DOMAIN m : m[i].src = k]

MapAppend(m, e) == Append(m, e)

MapSet(m, e) ==
    IF MapHas(m, e.src)
    THEN [i \in DOMAIN m |-> IF m[i].src = e.src THEN e ELSE m[i]]
    ELSE Append(m, e)

Keys(m) == {m[i].src : i \in DOMAIN m}

Find(cached, id) == {i \in DOMAIN cached : cached[i].id = id}

Found(cached, id) == cached[CHOOSE i \in Find(cached, id) : TRUE]

(* ensureCategoryDataLoaded: a listing already cached is kept as it is *)
LoadCache(cache, d, stores, categoryId) ==
    IF cache.loaded THEN cache
    ELSE [loaded |-> TRUE,
          objects |-> getObjectsInCategory(d, stores, categoryId),
          morphisms |-> getMorphismsInCategory(d, stores, categoryId)]

BothConflict(object, have, want, morphismId) ==
    [kind |-> "both", object |-> object, t1 |-> have.tgt, m1 |-> have.from,
     t2 |-> want, m2 |-> morphismId]

ManualConflict(object, manualTarget, derivedTarget) ==
    [kind |-> "manual", object |-> object, t1 |-> manualTarget, m1 |-> Nil,
     t2 |-> derivedTarget, m2 |-> Nil]

ProposeOnce(acc, object, target, morphismId) ==
    IF MapHas(acc.derived, object)
    THEN [acc EXCEPT !.conflicts =
              Append(@, BothConflict(object, MapGet(acc.derived, object), target, morphismId))]
    ELSE [acc EXCEPT !.derived = MapSet(@, Entry(object, target, morphismId))]

ProposeLater(acc, object, target, morphismId) ==
    IF /\ MapHas(acc.derived, object)
       /\ MapGet(acc.derived, object).tgt # target
       /\ MapGet(acc.derived, object).from < morphismId
    THEN [acc EXCEPT !.conflicts =
              Append(@, BothConflict(object, MapGet(acc.derived, object), target, morphismId))]
    ELSE [acc EXCEPT !.derived = MapSet(@, Entry(object, target, morphismId))]

(* One endpoint proposal: object -> target, from morphism mapping m *)
Propose(acc, object, target, morphismId) ==
    IF MapHas(acc.derived, object) /\ MapGet(acc.derived, object).tgt # target
    THEN [acc EXCEPT !.conflicts =
              Append(@, BothConflict(object, MapGet(acc.derived, object), target, morphismId))]
    ELSE [acc EXCEPT !.derived = MapSet(@, Entry(object, target, morphismId))]

DeriveFrom(acc, mapping, srcMorphisms, tgtMorphisms) ==
    IF Find(srcMorphisms, mapping.src) = {} \/ Find(tgtMorphisms, mapping.tgt) = {}
    THEN acc
    ELSE LET f == Found(srcMorphisms, mapping.src).data
             g == Found(tgtMorphisms, mapping.tgt).data
         IN  Propose(Propose(acc, f.sourceId, g.sourceId, mapping.src),
                     f.targetId, g.targetId, mapping.src)

RECURSIVE DeriveAll(_, _, _, _, _)
DeriveAll(acc, mappings, srcMorphisms, tgtMorphisms, i) ==
    IF i > Len(mappings) THEN acc
    ELSE DeriveAll(DeriveFrom(acc, mappings[i], srcMorphisms, tgtMorphisms),
                   mappings, srcMorphisms, tgtMorphisms, i + 1)

RECURSIVE ManualConflicts(_, _, _)
ManualConflicts(derivedMap, manualMap, i) ==
    IF i > Len(derivedMap) THEN <<>>
    ELSE (IF MapHas(manualMap, derivedMap[i].src)
             /\ MapGet(manualMap, derivedMap[i].src).tgt # derivedMap[i].tgt
          THEN <<ManualConflict(derivedMap[i].src, MapGet(manualMap, derivedMap[i].src).tgt,
                                derivedMap[i].tgt)>>
          ELSE <<>>)
         \o ManualConflicts(derivedMap, manualMap, i + 1)

computeDerivedMappings(mappings, manualMap, srcMorphisms, tgtMorphisms) ==
    LET acc == DeriveAll([derived |-> <<>>, conflicts |-> <<>>], mappings,
                         srcMorphisms, tgtMorphisms, 1)
    IN  [derived |-> acc.derived,
         conflicts |-> acc.conflicts \o ManualConflicts(acc.derived, manualMap, 1)]

ManualFirstMapping(derivedMap, manualMap, object) ==
    IF MapHas(manualMap, object) THEN MapGet(manualMap, object).tgt
    ELSE IF MapHas(derivedMap, object) THEN MapGet(derivedMap, object).tgt
    ELSE Nil

getEffectiveObjectMapping(derivedMap, manualMap, object) ==
    IF MapHas(derivedMap, object) THEN MapGet(derivedMap, object).tgt
    ELSE IF MapHas(manualMap, object) THEN MapGet(manualMap, object).tgt
    ELSE Nil

RECURSIVE SetAll(_, _, _)
SetAll(m, entries, i) ==
    IF i > Len(entries) THEN m
    ELSE SetAll(MapSet(m, Entry(entries[i].src, entries[i].tgt, Nil)), entries, i + 1)

ManualThenDerived(manualMap, derivedMap) ==
    manualMap \o [i \in DOMAIN derivedMap |-> Entry(derivedMap[i].src, derivedMap[i].tgt, Nil)]

builderObjectMappings(manualMap, derivedMap) == SetAll(manualMap, derivedMap, 1)

isReady(store, source, target) ==
    (IF store = Nil THEN <<[kind |-> "missing", object |-> "store"]>> ELSE <<>>)
    \o (IF source = Nil THEN <<[kind |-> "missing", object |-> "sourceCategory"]>> ELSE <<>>)
    \o (IF target = Nil THEN <<[kind |-> "missing", object |-> "targetCategory"]>> ELSE <<>>)

----------------------------------------------------------------------------
(* FunctorBuilder: declarations *)

BuilderCall(op, a, b, c, ok) ==
    /\ outcome' = IF ok THEN "ok" ELSE "throw"
    /\ lastOp' = Op(op, Nil, a, b, c)
    /\ UNCHANGED <<attached, db, rawOps, procVars>>

inStore(s) ==
    /\ bStore' = s
    /\ BuilderCall("inStore", s, Nil, Nil, TRUE)
    /\ UNCHANGED <<bSource, bTarget, manual, derived, morMap, srcCache, tgtCache, qe>>

sourceCategoryKeeping(c) ==
    /\ bSource' = c
    /\ srcCache' = NoCache
    /\ BuilderCall("sourceCategory", c, Nil, Nil, TRUE)
    /\ UNCHANGED <<bStore, bTarget, manual, derived, morMap, tgtCache, qe>>

sourceCategory(c) ==
    /\ bSource' = c
    /\ srcCache' = NoCache
    /\ manual' = <<>>
    /\ derived' = <<>>
    /\ morMap' = <<>>
    /\ BuilderCall("sourceCategory", c, Nil, Nil, TRUE)
    /\ UNCHANGED <<bStore, bTarget, tgtCache, qe>>

targetCategory(c) ==
    /\ bTarget' = c
    /\ tgtCache' = NoCache
    /\ manual' = <<>>
    /\ derived' = <<>>
    /\ morMap' = <<>>
    /\ BuilderCall("targetCategory", c, Nil, Nil, TRUE)
    /\ UNCHANGED <<bStore, bSource, srcCache, qe>>

mapObjectUnchecked(sourceId, targetId) ==
    /\ BuilderCall("mapObject", sourceId, targetId, Nil, TRUE)
    /\ manual' = MapSet(manual, Entry(sourceId, targetId, Nil))
    /\ UNCHANGED <<bStore, bSource, bTarget, derived, morMap, srcCache, tgtCache, qe>>

mapObject(sourceId, targetId) ==
    /\ IF MapHas(derived, sourceId) /\ MapGet(derived, sourceId).tgt # targetId
       THEN /\ BuilderCall("mapObject", sourceId, targetId, Nil, FALSE)
            /\ UNCHANGED manual
       ELSE /\ BuilderCall("mapObject", sourceId, targetId, Nil, TRUE)
            /\ manual' = MapSet(manual, Entry(sourceId, targetId, Nil))
    /\ UNCHANGED <<bStore, bSource, bTarget, derived, morMap, srcCache, tgtCache, qe>>

mapMorphism(sourceId, targetId) ==
    /\ morMap' = MapSet(morMap, Entry(sourceId, targetId, Nil))
    /\ BuilderCall("mapMorphism", sourceId, targetId, Nil, TRUE)
    /\ UNCHANGED <<bStore, bSource, bTarget, manual, derived, srcCache, tgtCache, qe>>

----------------------------------------------------------------------------
(* FunctorBuilder: validate and build *)

EngineStores == queryEngine(qe, attached).stores

LoadedSource == LoadCache(srcCache, db, EngineStores, bSource)

LoadedTarget == LoadCache(tgtCache, db, EngineStores, bTarget)

(* validate(): its result, and what it leaves in the builder and the      *)
(* client (nothing when isReady() reports an error)                        *)
Validation ==
    LET ready == isReady(bStore, bSource, bTarget)
        src == LoadedSource
        tgt == LoadedTarget
        der == computeDerivedMappings(morMap, manual, src.morphisms, tgt.morphisms)
    IN  IF ready # <<>>
        THEN [valid |-> FALSE, errors |-> ready, derived |-> derived,
              srcCache |-> srcCache, tgtCache |-> tgtCache, qe |-> qe]
        ELSE [valid |-> der.conflicts = <<>>, errors |-> der.conflicts,
              derived |-> der.derived, srcCache |-> src, tgtCache |-> tgt,
              qe |-> queryEngine(qe, attached)]

Validated(v) ==
    /\ derived' = v.derived
    /\ srcCache' = v.srcCache
    /\ tgtCache' = v.tgtCache
    /\ qe' = v.qe

validate ==
    \E v \in {Validation} :
        /\ Validated(v)
        /\ BuilderCall("validate", v.valid, v.errors, Nil, TRUE)
        /\ UNCHANGED <<bStore, bSource, bTarget, manual, morMap>>

(* The client calls build() issues after validation, in order *)
Call(op, src, tgt) == [op |-> op, src |-> src, tgt |-> tgt]

IdentityOf(cachedObjects, object) ==
    IF Find(cachedObjects, object) = {} THEN Nil
    ELSE Found(cachedObjects, object).data.identityMorphismId

IdentityCalls(all, srcObjects, tgtObjects) ==
    SelectSeq([i \in DOMAIN all |->
                  Call("addMorphismMapping", IdentityOf(srcObjects, all[i].src),
                       IdentityOf(tgtObjects, all[i].tgt))],
              LAMBDA c : c.src # Nil /\ c.tgt # Nil)

BuildCalls(source, target, manualMap, derivedMap, mappings, srcObjects, tgtObjects) ==
    LET all == builderObjectMappings(manualMap, derivedMap)
    IN  <<Call("createFunctor", source, target)>>
        \o [i \in DOMAIN all |-> Call("addObjectMapping", all[i].src, all[i].tgt)]
        \o [i \in DOMAIN mappings |-> Call("addMorphismMapping", mappings[i].src, mappings[i].tgt)]
        \o IdentityCalls(all, srcObjects, tgtObjects)

ApplyCallToFirst(d, att, call, functorId, s) ==
    LET first == IF IdsOf(d, "Functor") = {} THEN functorId
                 ELSE CHOOSE f \in IdsOf(d, "Functor") :
                          \A g \in IdsOf(d, "Functor") : f <= g
    IN  IF call.op = "createFunctor" THEN createFunctor(d, att, call.src, call.tgt, s)
        ELSE IF call.op = "addObjectMapping"
        THEN addObjectMapping(d, att, first, call.src, call.tgt, s)
        ELSE addMorphismMapping(d, att, first, call.src, call.tgt, s)

ApplyCall(d, att, call, functorId, s) ==
    IF call.op = "createFunctor" THEN createFunctor(d, att, call.src, call.tgt, s)
    ELSE IF call.op = "addObjectMapping"
    THEN addObjectMapping(d, att, functorId, call.src, call.tgt, s)
    ELSE addMorphismMapping(d, att, functorId, call.src, call.tgt, s)

(* a call whose create resolved and whose next store call rejected *)
CreatedOnly(d, call, functorId, s) ==
    IF call.op = "createFunctor" THEN StoreCreate(d, s, "Functor", FunctorInput(call.src, call.tgt))
    ELSE IF call.op = "addObjectMapping"
    THEN StoreCreate(d, s, "ObjectMapping", ObjectMappingInput(functorId, call.src, call.tgt))
    ELSE StoreCreate(d, s, "MorphismMapping", MorphismMappingInput(functorId, call.src, call.tgt))

RECURSIVE ApplyCalls(_, _, _, _, _, _, _)
ApplyCalls(d, att, calls, functorId, s, i, n) ==
    IF i > n THEN d
    ELSE ApplyCalls(ApplyCall(d, att, calls[i], functorId, s), att, calls, functorId, s, i + 1, n)

RolledBack(before, reached) == before

AfterReject(before, reached) == reached

BuildAnyway(validation) == TRUE

MayBuild(validation) == validation.valid

PlannedCalls(v) ==
    BuildCalls(bSource, bTarget, manual, v.derived, morMap,
               v.srcCache.objects, v.tgtCache.objects)

(* What build() leaves behind after validation v.  failAt = 0 when every   *)
(* store call resolves; otherwise the failAt-th client call rejects, at    *)
(* its create (created = FALSE) or at a store call after its create        *)
(* (created = TRUE).                                                       *)
BuildResult(v, failAt, created) ==
    IF ~MayBuild(v)
    THEN [db |-> db, outcome |-> "throw",
          lastOp |-> Op("build", Nil, "invalid", v.errors, 0)]
    ELSE IF ~IsAttached(attached, bStore)
    THEN [db |-> db, outcome |-> "throw",
          lastOp |-> Op("build", Nil, "notAttached", <<>>, 0)]
    ELSE LET calls == PlannedCalls(v)
             functorId == NewId(db)
         IN  IF failAt = 0
             THEN [db |-> ApplyCalls(db, attached, calls, functorId, bStore, 1, Len(calls)),
                   outcome |-> "ok",
                   lastOp |-> Op("build", functorId, "built", calls, 0)]
             ELSE LET before == ApplyCalls(db, attached, calls, functorId, bStore,
                                           1, failAt - 1)
                      reached == IF created
                                 THEN CreatedOnly(before, calls[failAt], functorId, bStore)
                                 ELSE before
                  IN  [db |-> AfterReject(db, reached),
                       outcome |-> "throw",
                       lastOp |-> Op("build", functorId, "rejected", calls,
                                     IF created THEN failAt + 1 ELSE failAt)]

buildFrom(v, failAt, created) ==
    \E r \in {BuildResult(v, failAt, created)} :
        /\ Validated(v)
        /\ db' = r.db
        /\ outcome' = r.outcome
        /\ lastOp' = r.lastOp
        /\ UNCHANGED <<attached, rawOps, procVars, bStore, bSource, bTarget, manual, morMap>>

build == \E v \in {Validation} : buildFrom(v, 0, FALSE)

----------------------------------------------------------------------------
(* SpecBuilder: one caller populates the graph through the Client and      *)
(* drives one FunctorBuilder                                                *)

MaxMappings == 2
Building == Count(db, "Functor") < MaxFunctors

InStoreStep == Building /\ \E s \in Stores : inStore(s)

SourceCategoryStep == Building /\ \E c \in IdsOf(db, "Category") : sourceCategory(c)

TargetCategoryStep == Building /\ \E c \in IdsOf(db, "Category") : targetCategory(c)

Room(m, k) == MapHas(m, k) \/ Len(manual) + Len(morMap) < MaxMappings

MapObjectStep ==
    /\ Building
    /\ \E a \in IdsOf(db, "Object"), b \in IdsOf(db, "Object") :
          Room(manual, a) /\ mapObject(a, b)

MapMorphismStep ==
    /\ Building
    /\ \E f \in IdsOf(db, "Morphism"), g \in IdsOf(db, "Morphism") :
          Room(morMap, f) /\ mapMorphism(f, g)

ValidateStep == Building /\ validate

BuildStep == Building /\ build

(* a store call of build() rejects: build() reaches store calls only      *)
(* after validation succeeded against an attached store                    *)
FailingBuildStep ==
    /\ Building
    /\ IsAttached(attached, bStore)
    /\ \E v \in {Validation} :
          /\ MayBuild(v)
          /\ \E failAt \in 1..Len(PlannedCalls(v)), created \in BOOLEAN :
                buildFrom(v, failAt, created)

(* The caller populates the graph before it touches the builder, and     *)
(* creates categories, then objects, then morphisms: ids are opaque, so    *)
(* another creation order yields the same graph up to renaming.            *)
Untouched ==
    /\ bStore = Nil
    /\ bSource = Nil
    /\ bTarget = Nil
    /\ manual = <<>>
    /\ morMap = <<>>

NoneYet(type) == Count(db, type) = 0

NextBuilder ==
    \/ Untouched /\ db = <<>> /\ AttachStep
    \/ Untouched /\ NoneYet("Object") /\ CreateCategoryStep
    \/ Untouched /\ UserMorphisms(db) = {} /\ CreateObjectStep
    \/ Untouched /\ CreateMorphismStep
    \/ InStoreStep
    \/ SourceCategoryStep
    \/ TargetCategoryStep
    \/ MapObjectStep
    \/ MapMorphismStep
    \/ ValidateStep
    \/ BuildStep

SpecBuilder == Init /\ [][NextBuilder]_vars

(* SpecBuildFail: the same caller, whose build() meets a rejecting store *)
NextBuildFail ==
    \/ Untouched /\ db = <<>> /\ AttachStep
    \/ Untouched /\ NoneYet("Object") /\ CreateCategoryStep
    \/ Untouched /\ UserMorphisms(db) = {} /\ CreateObjectStep
    \/ Untouched /\ CreateMorphismStep
    \/ InStoreStep
    \/ SourceCategoryStep
    \/ TargetCategoryStep
    \/ MapObjectStep
    \/ MapMorphismStep
    \/ FailingBuildStep

SpecBuildFail == Init /\ [][NextBuildFail]_vars

----------------------------------------------------------------------------
(* Committed functors *)

Built == lastOp.op = "build" /\ outcome = "ok"

ObjectRows(functorId) == getObjectMappings(db, EngineStores, functorId)

MorphismRows(functorId) == getMorphismMappings(db, EngineStores, functorId)

HasObjectRow(functorId, a, x) ==
    \E r \in Range(ObjectRows(functorId)) :
        r.data.sourceObjectId = a /\ r.data.targetObjectId = x

HasMorphismRow(functorId, f, g) ==
    \E r \in Range(MorphismRows(functorId)) :
        r.data.sourceMorphismId = f /\ r.data.targetMorphismId = g

IsLive(id, type) == id \in LiveIds(db, type)

(* C1 as claimed: for every Functor committed by build() and every         *)
(* MorphismMapping row f -> g of it, with f: A -> B and g: X -> Y, the      *)
(* functor also has the ObjectMapping rows A -> X and B -> Y.              *)
C1_StructurePreserved ==
    \A F \in LiveIds(db, "Functor") :
        \A r \in Range(MorphismRows(F)) :
            LET f == r.data.sourceMorphismId
                g == r.data.targetMorphismId
            IN  (IsLive(f, "Morphism") /\ IsLive(g, "Morphism"))
                    => /\ HasObjectRow(F, db[f].data.sourceId, db[g].data.sourceId)
                       /\ HasObjectRow(F, db[f].data.targetId, db[g].data.targetId)

(* C2 as claimed: for every Functor committed by build() and every         *)
(* ObjectMapping row A -> X of it, manual or derived, the functor also has *)
(* the MorphismMapping row id_A -> id_X.                                   *)
C2_IdentitiesMapped ==
    \A F \in LiveIds(db, "Functor") :
        \A r \in Range(ObjectRows(F)) :
            LET a == r.data.sourceObjectId
                x == r.data.targetObjectId
            IN  (IsLive(a, "Object") /\ IsLive(x, "Object"))
                    => HasMorphismRow(F, db[a].data.identityMorphismId,
                                      db[x].data.identityMorphismId)

(* C3 as claimed: no two MorphismMapping rows of a Functor committed by    *)
(* build() have the same sourceMorphismId, identity rows included.         *)
C3_OneRowPerSourceMorphism ==
    \A F \in LiveIds(db, "Functor") :
        \A i \in DOMAIN MorphismRows(F), j \in DOMAIN MorphismRows(F) :
            MorphismRows(F)[i].data.sourceMorphismId = MorphismRows(F)[j].data.sourceMorphismId
                => i = j

(* C4: a Functor built from N distinct source objects in the union of the  *)
(* manual and derived object mappings has exactly N ObjectMapping rows     *)
(* under getObjectMappings(functorId), no two with the same sourceObjectId *)
C4_ObjectRowsTotal ==
    Built =>
        LET rows == ObjectRows(lastOp.id)
        IN  /\ Len(rows) = Cardinality(Keys(manual) \cup Keys(derived))
            /\ \A i \in DOMAIN rows, j \in DOMAIN rows :
                  rows[i].data.sourceObjectId = rows[j].data.sourceObjectId => i = j

C4_Witness ==
    /\ Built
    /\ Len(ObjectRows(lastOp.id)) >= 2
    /\ Keys(manual) \cap Keys(derived) # {}

(* C5: if validate() would report valid = false, build() throws and        *)
(* persists nothing: no construct is created and none is modified.         *)
C5_InvalidBuildsNothing ==
    [][(lastOp'.op = "build" /\ ~Validation.valid)
          => (outcome' = "throw" /\ db' = db)]_vars

C5_Witness ==
    /\ lastOp.op = "build"
    /\ lastOp.a = "invalid"
    /\ outcome = "throw"
    /\ \E e \in Range(lastOp.b) : e.kind = "both"

(* C10: if a store call rejects partway through build() after validation  *)
(* succeeded, build() rejects and the Functor and every mapping row        *)
(* created by the earlier steps remain persisted.                          *)
Persisted(id, call, functorId) ==
    /\ id \in Ids(db)
    /\ db[id].live
    /\ IF call.op = "createFunctor"
       THEN /\ db[id].type = "Functor"
            /\ db[id].data.sourceCategoryId = call.src
            /\ db[id].data.targetCategoryId = call.tgt
       ELSE IF call.op = "addObjectMapping"
       THEN /\ db[id].type = "ObjectMapping"
            /\ db[id].data.functorId = functorId
            /\ db[id].data.sourceObjectId = call.src
            /\ db[id].data.targetObjectId = call.tgt
       ELSE /\ db[id].type = "MorphismMapping"
            /\ db[id].data.functorId = functorId
            /\ db[id].data.sourceMorphismId = call.src
            /\ db[id].data.targetMorphismId = call.tgt

C10_NoRollback ==
    (lastOp.op = "build" /\ lastOp.a = "rejected")
        => /\ outcome = "throw"
           /\ \A i \in 1..(lastOp.c - 1) :
                 Persisted(lastOp.id + i - 1, lastOp.b[i], lastOp.id)

C10_Witness ==
    /\ lastOp.op = "build"
    /\ lastOp.a = "rejected"
    /\ lastOp.c >= 4
    /\ \E i \in Ids(db) : db[i].type = "MorphismMapping"

----------------------------------------------------------------------------
(* SpecStores: one caller using every store-targeting Client operation,    *)
(* with stores attached and detached along the way                         *)

AddObjectMapping(functorId, sourceObjectId, targetObjectId, s) ==
    IF ~IsAttached(attached, s)
    THEN Throws("addObjectMapping", functorId, sourceObjectId, targetObjectId)
    ELSE Returns("addObjectMapping",
                 addObjectMapping(db, attached, functorId, sourceObjectId, targetObjectId, s),
                 NewId(db), functorId, sourceObjectId, targetObjectId)

AddMorphismMapping(functorId, sourceMorphismId, targetMorphismId, s) ==
    IF ~IsAttached(attached, s)
    THEN Throws("addMorphismMapping", functorId, sourceMorphismId, targetMorphismId)
    ELSE Returns("addMorphismMapping",
                 addMorphismMapping(db, attached, functorId, sourceMorphismId,
                                    targetMorphismId, s),
                 NewId(db), functorId, sourceMorphismId, targetMorphismId)

RECURSIVE findAll(_, _, _, _)
findAll(d, stores, type, i) ==
    IF i > Len(stores) THEN <<>>
    ELSE StoreList(d, stores[i], type) \o findAll(d, stores, type, i + 1)

(* meta(store).findAll(type): meta() takes the given store as it is, or    *)
(* every attached store when none is given                                 *)
MetaStores(att, s) == IF s # Nil THEN <<s>> ELSE att

MetaFindAll(s, type) ==
    /\ qe' = queryEngine(qe, attached)
    /\ outcome' = "ok"
    /\ lastOp' = Op("metaFindAll", Nil, s, type, findAll(db, MetaStores(attached, s), type, 1))
    /\ UNCHANGED <<attached, db, rawOps, builderVars, procVars>>

MetaTypes == {"Category", "Object"}

MaxRows == 1

Rows(d) == Count(d, "ObjectMapping") + Count(d, "MorphismMapping")

DetachStep == \E s \in Stores : detachStore(s)

AddObjectMappingStep ==
    /\ Rows(db) < MaxRows
    /\ \E s \in Stores, f \in IdsOf(db, "Functor"),
          a \in IdsOf(db, "Object"), b \in IdsOf(db, "Object") :
          AddObjectMapping(f, a, b, s)

AddMorphismMappingStep ==
    /\ Rows(db) < MaxRows
    /\ \E s \in Stores, f \in IdsOf(db, "Functor"),
          a \in IdsOf(db, "Morphism"), b \in IdsOf(db, "Morphism") :
          AddMorphismMapping(f, a, b, s)

MetaStep == \E s \in Stores \cup {Nil}, type \in MetaTypes : MetaFindAll(s, type)

(* The caller creates categories, then objects, then morphisms, then       *)
(* functors, then mapping rows: ids are opaque, so another creation order  *)
(* yields the same table up to renaming.  Attach, detach, update, delete   *)
(* and queries come at any point.                                          *)
NextStores ==
    \/ AttachStep
    \/ DetachStep
    \/ NoneYet("Object") /\ NoneYet("Functor") /\ CreateCategoryStep
    \/ UserMorphisms(db) = {} /\ NoneYet("Functor") /\ CreateObjectStep
    \/ NoneYet("Functor") /\ CreateMorphismStep
    \/ Rows(db) = 0 /\ CreateFunctorStep
    \/ AddObjectMappingStep
    \/ AddMorphismMappingStep
    \/ UpdateStep
    \/ DeleteStep
    \/ MetaStep

SpecStores == Init /\ [][NextStores]_vars

----------------------------------------------------------------------------
(* Creation with a referent no attached store holds *)

Missing(r) == r # Nil /\ findStoreFor(db, attached, r) = Nil

Created(type) ==
    /\ outcome' = "ok"
    /\ lastOp'.id = NewId(db)
    /\ Len(db') > Len(db)
    /\ db'[NewId(db)].type = type
    /\ db'[NewId(db)].live

Unwritten(r) == r \in Ids(db) /\ db'[r] = db[r]

(* C11: a creation operation whose store is attached and which references *)
(* a category, object or functor id that no attached store holds still    *)
(* succeeds and returns the new construct, and writes nothing to that      *)
(* referent.                                                               *)
C11_MissingReferentSkipped ==
    [][\A s \in Stores :
          IsAttached(attached, s) =>
            /\ lastOp'.op = "createObject" =>
                  \A c \in IdsOf(db, "Category") :
                      (Missing(c) /\ CreateObject(s, c))
                          => (Created("Object") /\ Unwritten(c))
            /\ lastOp'.op = "createMorphism" =>
                  \A a \in IdsOf(db, "Object"), b \in IdsOf(db, "Object"), c \in CategoryRefs :
                      CreateMorphism(a, b, s, c) =>
                          \A r \in {a, b, c} :
                              Missing(r) => (Created("Morphism") /\ Unwritten(r))
            /\ lastOp'.op = "createFunctor" =>
                  \A a \in IdsOf(db, "Category"), b \in IdsOf(db, "Category") :
                      CreateFunctor(a, b, s) =>
                          \A r \in {a, b} :
                              Missing(r) => (Created("Functor") /\ Unwritten(r))
            /\ lastOp'.op = "addObjectMapping" =>
                  \A f \in IdsOf(db, "Functor"), a \in IdsOf(db, "Object"),
                     b \in IdsOf(db, "Object") :
                      (Missing(f) /\ AddObjectMapping(f, a, b, s))
                          => (Created("ObjectMapping") /\ Unwritten(f))
            /\ lastOp'.op = "addMorphismMapping" =>
                  \A f \in IdsOf(db, "Functor"), a \in IdsOf(db, "Morphism"),
                     b \in IdsOf(db, "Morphism") :
                      (Missing(f) /\ AddMorphismMapping(f, a, b, s))
                          => (Created("MorphismMapping") /\ Unwritten(f))
      ]_vars

C11_Witness ==
    /\ lastOp.op = "createMorphism"
    /\ outcome = "ok"
    /\ lastOp.a \in Ids(db)
    /\ ~db[lastOp.a].live
    /\ db[lastOp.id].live
    /\ db[lastOp.id].data.sourceId = lastOp.a

(* a store-targeting data operation of the Client on store s *)
Targets(s) ==
    \/ CreateCategory(s)
    \/ \E c \in CategoryRefs : CreateObject(s, c)
    \/ \E a \in IdsOf(db, "Object"), b \in IdsOf(db, "Object"), c \in CategoryRefs :
          CreateMorphism(a, b, s, c)
    \/ \E a \in IdsOf(db, "Category"), b \in IdsOf(db, "Category") : CreateFunctor(a, b, s)
    \/ \E f \in IdsOf(db, "Functor"), a \in IdsOf(db, "Object"), b \in IdsOf(db, "Object") :
          AddObjectMapping(f, a, b, s)
    \/ \E f \in IdsOf(db, "Functor"), a \in IdsOf(db, "Morphism"), b \in IdsOf(db, "Morphism") :
          AddMorphismMapping(f, a, b, s)
    \/ \E id \in Ids(db) : \E data \in UpdatePayloads(id) : UpdateCTC(id, data, s)
    \/ \E id \in Ids(db) : DeleteCTC(id, s)
    \/ \E type \in MetaTypes : MetaFindAll(s, type)

(* C12 as claimed: every Client operation that targets a store which is    *)
(* not currently attached throws and leaves the store as it was.           *)
C12_UnattachedAlwaysThrows ==
    [][\A s \in Stores :
          (~IsAttached(attached, s) /\ Targets(s)) => (outcome' = "throw" /\ db' = db)]_vars

----------------------------------------------------------------------------
(* Validation results *)

Ready == isReady(bStore, bSource, bTarget) = <<>>

JustValidated == lastOp.op = "validate"

(* the two endpoint pairs a declared morphism mapping f -> g proposes, by  *)
(* the stored sourceId/targetId of f and g                                 *)
Proposals(m) ==
    {<<db[m.src].data.sourceId, db[m.tgt].data.sourceId>>,
     <<db[m.src].data.targetId, db[m.tgt].data.targetId>>}

AllProposals == UNION {Proposals(morMap[i]) : i \in DOMAIN morMap}

Reported(kind, object, targets) ==
    \E e \in Range(lastOp.b) :
        e.kind = kind /\ e.object = object /\ {e.t1, e.t2} = targets

(* C13 as claimed: whenever two declared morphism mappings propose         *)
(* different target objects for the same source object, validate() on a    *)
(* builder with store and categories set returns valid = false with an     *)
(* error that the object must map to both targets.                         *)
C13_ConflictingMorphismsRejected ==
    (JustValidated /\ Ready) =>
        \A i \in DOMAIN morMap, j \in DOMAIN morMap :
            \A p \in Proposals(morMap[i]), q \in Proposals(morMap[j]) :
                (i # j /\ p[1] = q[1] /\ p[2] # q[2])
                    => (lastOp.a = FALSE /\ Reported("both", p[1], {p[2], q[2]}))

(* C14 as claimed: whenever a manual mapping x -> t exists and a declared  *)
(* morphism mapping derives x -> d with d # t, validate() on a builder     *)
(* with store and categories set returns valid = false with an error that  *)
(* x is manually mapped to t but a morphism mapping requires d.            *)
C14_ManualMismatchRejected ==
    (JustValidated /\ Ready) =>
        \A k \in DOMAIN manual : \A p \in AllProposals :
            (p[1] = manual[k].src /\ p[2] # manual[k].tgt)
                => (lastOp.a = FALSE /\ Reported("manual", p[1], {manual[k].tgt, p[2]}))

Agreeing ==
    /\ \A p \in AllProposals, q \in AllProposals : p[1] = q[1] => p[2] = q[2]
    /\ \A k \in DOMAIN manual : \A p \in AllProposals :
          p[1] = manual[k].src => p[2] = manual[k].tgt

(* C15: if store, source and target category are set, all declared         *)
(* morphism mappings that propose a target for a source object propose the *)
(* same one, and every manual mapping equals the derived one where one     *)
(* exists, then validate() returns valid = true with no errors.            *)
C15_AgreementIsValid ==
    (JustValidated /\ Ready /\ Agreeing) => (lastOp.a = TRUE /\ lastOp.b = <<>>)

C15_Witness ==
    /\ JustValidated
    /\ Ready
    /\ Agreeing
    /\ lastOp.a = TRUE
    /\ morMap # <<>>
    /\ Keys(manual) \cap Keys(derived) # {}

DerivedFrom(object, target) ==
    /\ MapHas(derived, object)
    /\ MapGet(derived, object).tgt = target
    /\ \E j \in DOMAIN morMap :
          /\ <<object, target>> \in Proposals(morMap[j])
          /\ MapGet(derived, object).from = morMap[j].src

(* C16 as claimed: after validate() on a conflict-free configuration, for  *)
(* every declared morphism mapping f -> g with f: x -> y and g: a -> b the  *)
(* derived object mappings contain x -> a and y -> b, each tagged with a    *)
(* declared morphism mapping that proposes it.                             *)
C16_EndpointsDerived ==
    (JustValidated /\ Ready /\ lastOp.a = TRUE) =>
        \A i \in DOMAIN morMap : \A p \in Proposals(morMap[i]) : DerivedFrom(p[1], p[2])

(* C17: mapObject(source, target) throws and leaves the manual mappings    *)
(* unchanged whenever a derived mapping for that source exists with a      *)
(* different target; otherwise it records source -> target as a manual     *)
(* mapping.                                                                *)
C17_MapObjectFailsFast ==
    [][lastOp'.op = "mapObject" =>
          IF MapHas(derived, lastOp'.a) /\ MapGet(derived, lastOp'.a).tgt # lastOp'.b
          THEN outcome' = "throw" /\ manual' = manual
          ELSE /\ outcome' = "ok"
               /\ MapHas(manual', lastOp'.a)
               /\ MapGet(manual', lastOp'.a).tgt = lastOp'.b]_vars

C17_Witness ==
    /\ lastOp.op = "mapObject"
    /\ outcome = "throw"
    /\ MapHas(derived, lastOp.a)
    /\ MapGet(derived, lastOp.a).tgt # lastOp.b

Unset ==
    (IF bStore = Nil THEN {"store"} ELSE {})
    \cup (IF bSource = Nil THEN {"sourceCategory"} ELSE {})
    \cup (IF bTarget = Nil THEN {"targetCategory"} ELSE {})

(* the conflicts the derivation finds in the declared mappings, when both  *)
(* categories are set                                                      *)
PresentConflicts ==
    IF bSource = Nil \/ bTarget = Nil THEN {}
    ELSE Range(computeDerivedMappings(morMap, manual, LoadedSource.morphisms,
                                      LoadedTarget.morphisms).conflicts)

(* C18 as claimed: the errors returned by validate() contain every problem *)
(* present in the builder's state: every unset required field and every    *)
(* derivation conflict.                                                    *)
C18_AllErrorsAggregated ==
    JustValidated =>
        /\ \A u \in Unset : \E e \in Range(lastOp.b) : e.kind = "missing" /\ e.object = u
        /\ PresentConflicts \subseteq Range(lastOp.b)

NoDuplicateKeys(m) == \A i \in DOMAIN m, j \in DOMAIN m : m[i].src = m[j].src => i = j

Redeclared(before, after, k, t) ==
    /\ NoDuplicateKeys(after)
    /\ MapGet(after, k).tgt = t
    /\ Len(after) = IF MapHas(before, k) THEN Len(before) ELSE Len(before) + 1
    /\ \A i \in DOMAIN before : before[i].src # k => after[i] = before[i]
    /\ (MapHas(before, k) /\ MapGet(before, k).tgt = t) => after = before

(* C19: a mapObject (resp. mapMorphism) call that does not throw leaves    *)
(* exactly one manual (resp. morphism) entry for its source id, holding    *)
(* the target of this call; an id already mapped is overwritten in place,  *)
(* the size is unchanged, and a repeated call changes nothing.             *)
C19_LastWriteWins ==
    [][/\ (lastOp'.op = "mapObject" /\ outcome' = "ok")
              => Redeclared(manual, manual', lastOp'.a, lastOp'.b)
       /\ lastOp'.op = "mapMorphism"
              => Redeclared(morMap, morMap', lastOp'.a, lastOp'.b)]_vars

C19_Witness ==
    /\ lastOp.op = "mapObject"
    /\ outcome = "ok"
    /\ Len(manual) = 2
    /\ manual[1].src = lastOp.a
    /\ manual[1].tgt = lastOp.b

(* C20 as claimed: selecting the source or the target category invalidates *)
(* the cached listings of both categories and clears the three mapping     *)
(* maps.                                                                   *)
C20_Original ==
    [][lastOp'.op \in {"sourceCategory", "targetCategory"} =>
          /\ srcCache' = NoCache
          /\ tgtCache' = NoCache
          /\ manual' = <<>>
          /\ derived' = <<>>
          /\ morMap' = <<>>]_vars

(* C20: selecting the source (resp. target) category invalidates the       *)
(* cached listing of the source (resp. target) category, keeps the other   *)
(* category's cached listing, and clears the three mapping maps.           *)
C20_SelectionClears ==
    [][/\ lastOp'.op = "sourceCategory" => (srcCache' = NoCache /\ tgtCache' = tgtCache)
       /\ lastOp'.op = "targetCategory" => (tgtCache' = NoCache /\ srcCache' = srcCache)
       /\ lastOp'.op \in {"sourceCategory", "targetCategory"} =>
              (manual' = <<>> /\ derived' = <<>> /\ morMap' = <<>>)]_vars

C20_Witness ==
    /\ lastOp.op = "sourceCategory"
    /\ ~srcCache.loaded
    /\ tgtCache.loaded
    /\ manual = <<>>
    /\ morMap = <<>>

----------------------------------------------------------------------------
(* SpecRebuild: one caller populates the graph, selects the store and the  *)
(* two categories once, and builds from the same builder up to MaxBuilds   *)
(* times, declaring mappings before and between the builds                 *)

MaxBuilds == 2
Rebuilding == Count(db, "Functor") < MaxBuilds

SelectStoreStep == bStore = Nil /\ \E s \in Stores : inStore(s)

SelectSourceStep == bSource = Nil /\ \E c \in IdsOf(db, "Category") : sourceCategory(c)

SelectTargetStep == bTarget = Nil /\ \E c \in IdsOf(db, "Category") : targetCategory(c)

DeclareObjectStep ==
    /\ Rebuilding
    /\ \E a \in IdsOf(db, "Object"), b \in IdsOf(db, "Object") :
          Room(manual, a) /\ mapObject(a, b)

DeclareMorphismStep ==
    /\ Rebuilding
    /\ \E f \in IdsOf(db, "Morphism"), g \in IdsOf(db, "Morphism") :
          Room(morMap, f) /\ mapMorphism(f, g)

RebuildStep == Rebuilding /\ build

NextRebuild ==
    \/ Untouched /\ db = <<>> /\ AttachStep
    \/ Untouched /\ NoneYet("Object") /\ CreateCategoryStep
    \/ Untouched /\ UserMorphisms(db) = {} /\ CreateObjectStep
    \/ Untouched /\ CreateMorphismStep
    \/ SelectStoreStep
    \/ SelectSourceStep
    \/ SelectTargetStep
    \/ DeclareObjectStep
    \/ DeclareMorphismStep
    \/ RebuildStep

SpecRebuild == Init /\ [][NextRebuild]_vars

(* the rows a functor has in table d, as pairs *)
ObjectPairs(d, functorId) ==
    {<<r.data.sourceObjectId, r.data.targetObjectId>> :
        r \in Range(getObjectMappings(d, attached, functorId))}

MorphismPairs(d, functorId) ==
    {<<r.data.sourceMorphismId, r.data.targetMorphismId>> :
        r \in Range(getMorphismMappings(d, attached, functorId))}

(* the builder's declarations, as pairs *)
DeclaredObjects ==
    {<<k, getEffectiveObjectMapping(derived, manual, k)>> : k \in Keys(manual) \cup Keys(derived)}

DeclaredMorphisms == {<<e.src, e.tgt>> : e \in Range(morMap)}

IdentityPairs(d, pairs) ==
    {<<d[p[1]].data.identityMorphismId, d[p[2]].data.identityMorphismId>> : p \in pairs}

FunctorRecords(d) ==
    {i \in Ids(d) : d[i].type \in {"Functor", "ObjectMapping", "MorphismMapping"}}

(* C21: a successful build() that follows an earlier build of the same     *)
(* builder creates a Functor under an id no construct had before, whose    *)
(* object rows are exactly the builder's object mappings at that build and *)
(* whose morphism rows are the builder's morphism mappings plus identity   *)
(* rows of its object rows; every Functor and mapping row that existed     *)
(* before the build is left as it was.                                     *)
C21_RebuildIsIndependent ==
    [][(lastOp'.op = "build" /\ outcome' = "ok" /\ IdsOf(db, "Functor") # {}) =>
          /\ lastOp'.id \notin Ids(db)
          /\ db'[lastOp'.id].type = "Functor"
          /\ \A i \in FunctorRecords(db) : db'[i] = db[i]
          /\ ObjectPairs(db', lastOp'.id) = DeclaredObjects'
          /\ Len(getObjectMappings(db', attached, lastOp'.id)) = Cardinality(DeclaredObjects')
          /\ DeclaredMorphisms' \subseteq MorphismPairs(db', lastOp'.id)
          /\ MorphismPairs(db', lastOp'.id) \ DeclaredMorphisms'
                \subseteq IdentityPairs(db', DeclaredObjects')
          /\ \A f \in IdsOf(db, "Functor") :
                /\ ObjectPairs(db', f) = ObjectPairs(db, f)
                /\ MorphismPairs(db', f) = MorphismPairs(db, f)]_vars

C21_Witness ==
    /\ Built
    /\ Count(db, "Functor") = 2
    /\ \E f \in IdsOf(db, "Functor") :
          /\ f # lastOp.id
          /\ ObjectPairs(db, f) # {}
          /\ ObjectPairs(db, f) # ObjectPairs(db, lastOp.id)

----------------------------------------------------------------------------
(* FunctorBuilder: queries for available targets *)

(* Client.getCTC: the first attached store that holds the id answers *)
getCTC(d, att, id) == findStoreFor(d, att, id)

Resolved(d, att, id, type) == getCTC(d, att, id) # Nil /\ d[id].type = type

Target(id, required) == [id |-> id, required |-> required]

TargetsOf(cached, required) == [i \in DOMAIN cached |-> Target(cached[i].id, required)]

(* ensureCategoryDataLoaded followed by computeDerivedMappings: what the   *)
(* two leave in the builder (nothing when a category is unset)             *)
Derivation ==
    LET src == LoadedSource
        tgt == LoadedTarget
    IN  IF bSource = Nil \/ bTarget = Nil
        THEN [loaded |-> FALSE, derived |-> derived, srcCache |-> srcCache,
              tgtCache |-> tgtCache]
        ELSE [loaded |-> TRUE,
              derived |-> computeDerivedMappings(morMap, manual, src.morphisms,
                                                 tgt.morphisms).derived,
              srcCache |-> src, tgtCache |-> tgt]

ObjectTargets(v, source) ==
    IF MapHas(v.derived, source)
    THEN IF /\ Find(v.tgtCache.objects, MapGet(v.derived, source).tgt) # {}
            /\ Resolved(db, attached, MapGet(v.derived, source).tgt, "Object")
         THEN <<Target(MapGet(v.derived, source).tgt, TRUE)>>
         ELSE <<>>
    ELSE SelectSeq(TargetsOf(v.tgtCache.objects, FALSE),
                   LAMBDA t : Resolved(db, attached, t.id, "Object"))

MorphismTargets(v, source) ==
    LET srcMor == Found(v.srcCache.morphisms, source).data
        requiredSourceTarget == getEffectiveObjectMapping(v.derived, manual, srcMor.sourceId)
        requiredTargetTarget == getEffectiveObjectMapping(v.derived, manual, srcMor.targetId)
    IN  SelectSeq(TargetsOf(SelectSeq(v.tgtCache.morphisms,
                                      LAMBDA m :
                                         /\ ~m.data.isIdentity
                                         /\ requiredSourceTarget # Nil
                                               => m.data.sourceId = requiredSourceTarget
                                         /\ requiredTargetTarget # Nil
                                               => m.data.targetId = requiredTargetTarget),
                            FALSE),
                  LAMBDA t : Resolved(db, attached, t.id, "Morphism"))

(* the client builds its query engine when a listing is loaded and when a  *)
(* result is wrapped                                                       *)
EngineAfter(v, results) ==
    IF v.loaded /\ (~srcCache.loaded \/ ~tgtCache.loaded \/ results # <<>>)
    THEN queryEngine(qe, attached)
    ELSE qe

Queried(op, v, source, member, results) ==
    /\ derived' = v.derived
    /\ srcCache' = v.srcCache
    /\ tgtCache' = v.tgtCache
    /\ qe' = EngineAfter(v, IF member THEN results ELSE <<>>)
    /\ BuilderCall(op, source, IF member THEN results ELSE <<>>, Nil, member)
    /\ UNCHANGED <<bStore, bSource, bTarget, manual, morMap>>

listAvailableObjectTargets(source) ==
    \E v \in {Derivation} :
        \E member \in {v.loaded /\ Find(v.srcCache.objects, source) # {}} :
            Queried("listAvailableObjectTargets", v, source, member,
                    IF member THEN ObjectTargets(v, source) ELSE <<>>)

listAvailableMorphismTargets(source) ==
    \E v \in {Derivation} :
        \E member \in {v.loaded /\ Find(v.srcCache.morphisms, source) # {}} :
            Queried("listAvailableMorphismTargets", v, source, member,
                    IF member THEN MorphismTargets(v, source) ELSE <<>>)

----------------------------------------------------------------------------
(* SpecQuery: one caller populates the graph, declares mappings on one     *)
(* FunctorBuilder and asks it for the available targets                    *)

ListObjectTargetsStep == \E a \in IdsOf(db, "Object") : listAvailableObjectTargets(a)

ListMorphismTargetsStep == \E f \in IdsOf(db, "Morphism") : listAvailableMorphismTargets(f)

NextQuery ==
    \/ Untouched /\ db = <<>> /\ AttachStep
    \/ Untouched /\ NoneYet("Object") /\ CreateCategoryStep
    \/ Untouched /\ UserMorphisms(db) = {} /\ CreateObjectStep
    \/ Untouched /\ CreateMorphismStep
    \/ SourceCategoryStep
    \/ TargetCategoryStep
    \/ MapObjectStep
    \/ MapMorphismStep
    \/ ListObjectTargetsStep
    \/ ListMorphismTargetsStep

SpecQuery == Init /\ [][NextQuery]_vars

----------------------------------------------------------------------------
(* Available targets *)

Listed(op) == lastOp.op = op /\ outcome = "ok"

ListedIds == {lastOp.b[i].id : i \in DOMAIN lastOp.b}

InCategory(type, categoryId) ==
    {i \in LiveIds(db, type) : db[i].data.categoryId = categoryId}

Selected == bSource # Nil /\ bTarget # Nil

(* C22: listAvailableObjectTargets(source), for an object of the source    *)
(* category, returns the one derived target with required = true when the  *)
(* derived map holds the source, and otherwise every object of the target  *)
(* category once, with required = false, whatever the manual map holds.    *)
C22_ObjectTargets ==
    (/\ lastOp.op = "listAvailableObjectTargets"
     /\ Selected
     /\ lastOp.a \in InCategory("Object", bSource)) =>
        /\ outcome = "ok"
        /\ IF MapHas(derived, lastOp.a)
           THEN lastOp.b = <<Target(MapGet(derived, lastOp.a).tgt, TRUE)>>
           ELSE /\ ListedIds = InCategory("Object", bTarget)
                /\ Len(lastOp.b) = Cardinality(ListedIds)
                /\ \A i \in DOMAIN lastOp.b : ~lastOp.b[i].required

(* the constraint on the image of an object: its derived mapping, or else  *)
(* its manual mapping, or none                                             *)
Constraint(object) ==
    IF \E e \in Range(derived) : e.src = object
    THEN {e.tgt : e \in {x \in Range(derived) : x.src = object}}
    ELSE {e.tgt : e \in {x \in Range(manual) : x.src = object}}

Satisfies(endpoint, constraint) == constraint = {} \/ endpoint \in constraint

C24_IdentityHasNoTargets ==
    (/\ Listed("listAvailableMorphismTargets")
     /\ lastOp.a \in InCategory("Morphism", bSource)
     /\ db[lastOp.a].data.isIdentity) => lastOp.b = <<>>

(* C25: the builder's morphism mappings never hold an identity morphism,   *)
(* as source or as target, after any declarations.                         *)
C25_NoIdentityDeclared ==
    \A e \in Range(morMap) : ~db[e.src].data.isIdentity /\ ~db[e.tgt].data.isIdentity

----------------------------------------------------------------------------
(* Versions *)

(* how many ids a step appended to the back-reference arrays of a payload *)
Grown(old, new) ==
    (Len(new.objectIds) - Len(old.objectIds))
    + (Len(new.morphismIds) - Len(old.morphismIds))
    + (Len(new.functorsFromIds) - Len(old.functorsFromIds))
    + (Len(new.functorsToIds) - Len(old.functorsToIds))
    + (Len(new.morphismsFromIds) - Len(old.morphismsFromIds))
    + (Len(new.morphismsToIds) - Len(old.morphismsToIds))
    + (Len(new.objectMappingIds) - Len(old.objectMappingIds))
    + (Len(new.morphismMappingIds) - Len(old.morphismMappingIds))

(* a construct as the store's create leaves it, before any update *)
AsCreated(record) == [record EXCEPT !.version = 1, !.data = NoData]

(* The updates a step applied to a construct: the raw update is one; each  *)
(* back-reference append is one; the update that records an object's      *)
(* identity morphism appends to two arrays at once.                        *)
Written(old, new, raw) ==
    IF raw THEN 1
    ELSE Grown(old.data, new.data)
         - (IF old.data.identityMorphismId = Nil /\ new.data.identityMorphismId # Nil
            THEN 1 ELSE 0)

(* C26: a construct is created with version 1 and each successful update   *)
(* of it keeps its id and store and raises its version by exactly one, so  *)
(* a step that applies n updates to a construct raises its version by n.   *)
C26_VersionCountsUpdates ==
    [][\A id \in Ids(db') :
          LET old == IF id \in Ids(db) THEN db[id] ELSE AsCreated(db'[id])
              raw == lastOp'.op = "updateCTC" /\ outcome' = "ok" /\ lastOp'.id = id
          IN  /\ db'[id].store = old.store
              /\ db'[id].version = old.version + Written(old, db'[id], raw)]_vars

C26_Witness ==
    /\ lastOp.op = "updateCTC"
    /\ outcome = "ok"
    /\ db[lastOp.id].version >= 4

----------------------------------------------------------------------------
(* Deletion *)

Refers(record, id) ==
    \/ id \in Range(record.data.objectIds)
    \/ id \in Range(record.data.morphismIds)
    \/ id \in Range(record.data.morphismsFromIds)
    \/ id \in Range(record.data.morphismsToIds)
    \/ id \in Range(record.data.functorsFromIds)
    \/ id \in Range(record.data.functorsToIds)

(* C29: deleteCTC(id, store) on an attached store removes the construct    *)
(* with that id when the store holds it and changes nothing else: every    *)
(* other construct, its back-reference arrays included, is as before.      *)
C29_DeleteRemovesOnlyThat ==
    [][(lastOp'.op = "deleteCTC" /\ outcome' = "ok") =>
          /\ Ids(db') = Ids(db)
          /\ \A i \in Ids(db) \ {lastOp'.id} : db'[i] = db[i]
          /\ Has(db, lastOp'.a, lastOp'.id) => ~Has(db', lastOp'.a, lastOp'.id)
          /\ lastOp'.b = Has(db, lastOp'.a, lastOp'.id)]_vars

(* a construct was deleted and another, still stored, lists its id *)
C29_Witness ==
    /\ lastOp.op = "deleteCTC"
    /\ outcome = "ok"
    /\ lastOp.b = TRUE
    /\ \E i \in Ids(db) \ {lastOp.id} : db[i].live /\ Refers(db[i], lastOp.id)

----------------------------------------------------------------------------
(* QueryEngine: image and preimage of an object under a functor *)

Readable(d, stores, id) == FirstHolding(d, stores, id, 1) # Nil

getTargetObjectForSource(d, stores, functorId, sourceObjectId) ==
    LET found == SelectSeq(getObjectMappings(d, stores, functorId),
                           LAMBDA r : /\ r.data.sourceObjectId = sourceObjectId
                                      /\ Readable(d, stores, r.data.targetObjectId))
    IN  IF found = <<>> THEN Nil ELSE found[1].data.targetObjectId

FirstSourceForTarget(d, stores, functorId, targetObjectId) ==
    LET found == SelectSeq(getObjectMappings(d, stores, functorId),
                           LAMBDA r : /\ r.data.targetObjectId = targetObjectId
                                      /\ Readable(d, stores, r.data.sourceObjectId))
    IN  IF found = <<>> THEN <<>> ELSE <<found[1].data.sourceObjectId>>

getSourceObjectsForTarget(d, stores, functorId, targetObjectId) ==
    LET found == SelectSeq(getObjectMappings(d, stores, functorId),
                           LAMBDA r : /\ r.data.targetObjectId = targetObjectId
                                      /\ Readable(d, stores, r.data.sourceObjectId))
    IN  [i \in DOMAIN found |-> found[i].data.sourceObjectId]

Query(op, functorId, argument, result) ==
    /\ qe' = queryEngine(qe, attached)
    /\ outcome' = "ok"
    /\ lastOp' = Op(op, functorId, argument, result, Nil)
    /\ UNCHANGED <<attached, db, rawOps, builderVars, procVars>>

GetTargetObjectForSource(functorId, sourceObjectId) ==
    Query("getTargetObjectForSource", functorId, sourceObjectId,
          getTargetObjectForSource(db, queryEngine(qe, attached).stores, functorId,
                                   sourceObjectId))

GetSourceObjectsForTarget(functorId, targetObjectId) ==
    Query("getSourceObjectsForTarget", functorId, targetObjectId,
          getSourceObjectsForTarget(db, queryEngine(qe, attached).stores, functorId,
                                    targetObjectId))

----------------------------------------------------------------------------
(* SpecImage: one caller creates objects and a functor, adds object        *)
(* mapping rows, deletes constructs and asks for images and preimages      *)

MaxImageRows == 2

ImageRowStep ==
    /\ Count(db, "ObjectMapping") < MaxImageRows
    /\ \E s \in Stores, f \in IdsOf(db, "Functor"),
          a \in IdsOf(db, "Object"), b \in IdsOf(db, "Object") :
          AddObjectMapping(f, a, b, s)

ImageStep ==
    \E f \in IdsOf(db, "Functor"), a \in IdsOf(db, "Object") :
        GetTargetObjectForSource(f, a)

PreimageStep ==
    \E f \in IdsOf(db, "Functor"), t \in IdsOf(db, "Object") \cup {Nil} :
        GetSourceObjectsForTarget(f, t)

NextImage ==
    \/ db = <<>> /\ AttachStep
    \/ NoneYet("Object") /\ CreateCategoryStep
    \/ NoneYet("Functor") /\ CreateObjectStep
    \/ NoneYet("ObjectMapping") /\ CreateFunctorStep
    \/ ImageRowStep
    \/ DeleteStep
    \/ ImageStep
    \/ PreimageStep

SpecImage == Init /\ [][NextImage]_vars

(* the preimage is asked for the image the previous call returned *)
RoundTrip ==
    /\ lastOp.op = "getTargetObjectForSource"
    /\ lastOp'.op = "getSourceObjectsForTarget"
    /\ lastOp'.id = lastOp.id
    /\ lastOp'.a = lastOp.b

HasObjectMapping(functorId, object) ==
    /\ Readable(db, attached, object)
    /\ \E r \in Range(getObjectMappings(db, attached, functorId)) :
          r.data.sourceObjectId = object

----------------------------------------------------------------------------
(* SpecScan: one caller attaches and detaches the stores of ScanStores in  *)
(* any order, creates a category and objects in them and scans             *)

MaxScanStores == 2
ScanStoreIds == 1..MaxScanStores

IdsIn(snapshots) == [i \in DOMAIN snapshots |-> snapshots[i].id]

GetObjectsInCategory(categoryId) ==
    Query("getObjectsInCategory", Nil, categoryId,
          IdsIn(getObjectsInCategory(db, queryEngine(qe, attached).stores, categoryId)))

ScanAttachStep == \E s \in ScanStoreIds : attachStore(s)

ScanDetachStep == \E s \in ScanStoreIds : detachStore(s)

ScanCategoryStep ==
    /\ Count(db, "Category") < MaxCategories
    /\ \E s \in ScanStoreIds : CreateCategory(s)

ScanObjectStep ==
    /\ Count(db, "Object") < MaxObjects
    /\ \E s \in ScanStoreIds, c \in CategoryRefs : CreateObject(s, c)

ScanStep == \E c \in IdsOf(db, "Category") : GetObjectsInCategory(c)

ScanAllStep == \E type \in MetaTypes : MetaFindAll(Nil, type)

NextScan ==
    \/ ScanAttachStep
    \/ ScanDetachStep
    \/ ScanCategoryStep
    \/ ScanObjectStep
    \/ ScanStep
    \/ ScanAllStep

SpecScan == Init /\ [][NextScan]_vars

Position(sequence, element) == CHOOSE i \in DOMAIN sequence : sequence[i] = element

Scanned == lastOp.op = "getObjectsInCategory" \/ lastOp.op = "metaFindAll"

ScanResults == IF lastOp.op = "metaFindAll" THEN lastOp.c ELSE lastOp.b

ScanType == IF lastOp.op = "metaFindAll" THEN lastOp.b ELSE "Object"

(* C27: the results of a scan come from attached stores only; a result of  *)
(* an earlier-attached store precedes a result of a later-attached store,  *)
(* and two results of one store are in the order of that store's listing.  *)
C27_ScanOrder ==
    Scanned =>
        /\ \A i \in DOMAIN ScanResults : db[ScanResults[i]].store \in Range(attached)
        /\ \A i \in DOMAIN ScanResults : \A j \in DOMAIN ScanResults :
              i < j =>
                 LET si == db[ScanResults[i]].store
                     sj == db[ScanResults[j]].store
                 IN  \/ Position(attached, si) < Position(attached, sj)
                     \/ /\ si = sj
                        /\ Position(StoreList(db, si, ScanType), ScanResults[i])
                              < Position(StoreList(db, si, ScanType), ScanResults[j])

(* a scan returned a construct created later before one created earlier,   *)
(* because the store of the first comes first in the attachment order      *)
C27_Witness ==
    /\ Scanned
    /\ \E i \in DOMAIN ScanResults : \E j \in DOMAIN ScanResults :
          /\ i < j
          /\ ScanResults[i] > ScanResults[j]
          /\ db[ScanResults[i]].store > db[ScanResults[j]].store

----------------------------------------------------------------------------
(* SpecStale: the caller of SpecQuery also detaches and attaches stores    *)
(* once the builder's categories are selected                              *)

NextStale ==
    \/ Untouched /\ db = <<>> /\ AttachStep
    \/ Untouched /\ NoneYet("Object") /\ CreateCategoryStep
    \/ Untouched /\ UserMorphisms(db) = {} /\ CreateObjectStep
    \/ Untouched /\ CreateMorphismStep
    \/ SelectSourceStep
    \/ SelectTargetStep
    \/ MapMorphismStep
    \/ ListObjectTargetsStep
    \/ Selected /\ DetachStep
    \/ Selected /\ AttachStep

SpecStale == Init /\ [][NextStale]_vars

(* the listing of a category over the stores attached now *)
Listing(categoryId) ==
    [loaded |-> TRUE,
     objects |-> getObjectsInCategory(db, attached, categoryId),
     morphisms |-> getMorphismsInCategory(db, attached, categoryId)]

(* C30: a builder derivation observes exactly the stores attached when it  *)
(* runs: the listings it works from are those of the attached stores, and  *)
(* the derived mappings are those computed from them, whatever stores were *)
(* attached or detached before.                                            *)
C30_DerivationSeesAttached ==
    (lastOp.op = "listAvailableObjectTargets" /\ Selected) =>
        /\ srcCache = Listing(bSource)
        /\ tgtCache = Listing(bTarget)
        /\ derived = computeDerivedMappings(morMap, manual, Listing(bSource).morphisms,
                                            Listing(bTarget).morphisms).derived

----------------------------------------------------------------------------
(* SpecCross: one caller attaches and detaches the stores of ScanStoreIds  *)
(* and creates categories, objects, morphisms and functors in any of them, *)
(* referring to constructs of any of them                                  *)

CrossMorphismStep ==
    /\ Cardinality(UserMorphisms(db)) < MaxMorphisms
    /\ \E s \in ScanStoreIds, a \in IdsOf(db, "Object"), b \in IdsOf(db, "Object"),
          c \in CategoryRefs : CreateMorphism(a, b, s, c)

CrossFunctorStep ==
    /\ Count(db, "Functor") < MaxFunctors
    /\ \E s \in ScanStoreIds, a \in IdsOf(db, "Category"), b \in IdsOf(db, "Category") :
          CreateFunctor(a, b, s)

NextCross ==
    \/ ScanAttachStep
    \/ ScanDetachStep
    \/ ScanCategoryStep
    \/ ScanObjectStep
    \/ CrossMorphismStep
    \/ CrossFunctorStep

SpecCross == Init /\ [][NextCross]_vars

(* the referent r of a creation in store s got newId appended to field, in *)
(* the attached store holding it, or is untouched when none holds it       *)
Holder(r) == IF db[r].live /\ db[r].store \in Range(attached) THEN db[r].store ELSE Nil

Routed(r, field, newId) ==
    IF r = Nil THEN TRUE
    ELSE IF Holder(r) = Nil THEN db'[r] = db[r]
    ELSE /\ db'[r].store = Holder(r)
         /\ db'[r].live
         /\ newId \in Range(db'[r].data[field])

CreatedIn(s) == \A i \in Ids(db') \ Ids(db) : db'[i].store = s /\ db'[i].live

OthersKept(referents) == \A i \in Ids(db) \ referents : db'[i] = db[i]

(* C31: every successful creation puts its new constructs in the caller's  *)
(* store only, appends each back-reference in the attached store that      *)
(* holds the referent, whichever store that is, and writes nowhere else.   *)
C31_AppendRoutedToHolder ==
    [][/\ lastOp'.op = "createObject" /\ outcome' = "ok" =>
             \A s \in ScanStoreIds, c \in CategoryRefs :
                CreateObject(s, c) =>
                   /\ CreatedIn(s)
                   /\ Routed(c, "objectIds", NewId(db))
                   /\ Routed(c, "morphismIds", NewId(db) + 1)
                   /\ OthersKept({c})
       /\ lastOp'.op = "createMorphism" /\ outcome' = "ok" =>
             \A s \in ScanStoreIds, a \in IdsOf(db, "Object"), b \in IdsOf(db, "Object"),
                c \in CategoryRefs :
                CreateMorphism(a, b, s, c) =>
                   /\ CreatedIn(s)
                   /\ Routed(c, "morphismIds", NewId(db))
                   /\ Routed(a, "morphismsFromIds", NewId(db))
                   /\ Routed(b, "morphismsToIds", NewId(db))
                   /\ OthersKept({a, b, c})
       /\ lastOp'.op = "createFunctor" /\ outcome' = "ok" =>
             \A s \in ScanStoreIds, a \in IdsOf(db, "Category"), b \in IdsOf(db, "Category") :
                CreateFunctor(a, b, s) =>
                   /\ CreatedIn(s)
                   /\ Routed(a, "functorsFromIds", NewId(db))
                   /\ Routed(b, "functorsToIds", NewId(db))
                   /\ OthersKept({a, b})]_vars

(* a morphism was created in one store and appended to its source object,  *)
(* which another store holds                                               *)
C31_Witness ==
    /\ lastOp.op = "createMorphism"
    /\ outcome = "ok"
    /\ db[lastOp.id].store # db[lastOp.a].store
    /\ lastOp.id \in Range(db[lastOp.a].data.morphismsFromIds)

----------------------------------------------------------------------------
(* The functor build() returns *)

RowsOf(type, functorId) == {i \in IdsOf(db, type) : db[i].data.functorId = functorId}

(* C32: the Functor a successful build() returns, re-read after the last   *)
(* row was added, lists in objectMappingIds and morphismMappingIds exactly *)
(* the ObjectMapping and MorphismMapping rows of that functor, each once.  *)
C32_ReturnedFunctorPopulated ==
    Built =>
        /\ getCTC(db, attached, lastOp.id) # Nil
        /\ Range(db[lastOp.id].data.objectMappingIds) = RowsOf("ObjectMapping", lastOp.id)
        /\ Len(db[lastOp.id].data.objectMappingIds)
              = Cardinality(RowsOf("ObjectMapping", lastOp.id))
        /\ Range(db[lastOp.id].data.morphismMappingIds) = RowsOf("MorphismMapping", lastOp.id)
        /\ Len(db[lastOp.id].data.morphismMappingIds)
              = Cardinality(RowsOf("MorphismMapping", lastOp.id))

C32_Witness ==
    /\ Built
    /\ Len(db[lastOp.id].data.objectMappingIds) >= 2
    /\ Len(db[lastOp.id].data.morphismMappingIds) >= 2

----------------------------------------------------------------------------
(* Objects and their morphisms *)

MorphismsWith(field, object) == {m \in IdsOf(db, "Morphism") : db[m].data[field] = object}

(* C33: after any typed creations issued one at a time, every object's     *)
(* morphismsFromIds holds exactly the morphisms whose sourceId is the      *)
(* object and its morphismsToIds exactly those whose targetId is the       *)
(* object, each once, the object's identity morphism among both.           *)
C33_ObjectArraysSync ==
    \A o \in IdsOf(db, "Object") :
        /\ Range(db[o].data.morphismsFromIds) = MorphismsWith("sourceId", o)
        /\ Len(db[o].data.morphismsFromIds) = Cardinality(MorphismsWith("sourceId", o))
        /\ Range(db[o].data.morphismsToIds) = MorphismsWith("targetId", o)
        /\ Len(db[o].data.morphismsToIds) = Cardinality(MorphismsWith("targetId", o))
        /\ db[o].data.identityMorphismId \in Range(db[o].data.morphismsFromIds)
        /\ db[o].data.identityMorphismId \in Range(db[o].data.morphismsToIds)

(* a user morphism runs from one object to another *)
C33_Witness ==
    \E o \in IdsOf(db, "Object"), p \in IdsOf(db, "Object") :
        /\ o # p
        /\ Len(db[o].data.morphismsFromIds) = 2
        /\ Len(db[p].data.morphismsToIds) = 2

----------------------------------------------------------------------------
(* Rows and category membership *)

MemberOf(id, categoryId) == db[id].data.categoryId = categoryId

(* C34: every ObjectMapping row of a functor committed by build() maps an  *)
(* object of the functor's source category to an object of its target      *)
(* category, and every MorphismMapping row maps a morphism of the source   *)
(* category to a morphism of the target category.                          *)
C34_RowsWithinCategories ==
    Built =>
        /\ \A i \in RowsOf("ObjectMapping", lastOp.id) :
              /\ MemberOf(db[i].data.sourceObjectId, db[lastOp.id].data.sourceCategoryId)
              /\ MemberOf(db[i].data.targetObjectId, db[lastOp.id].data.targetCategoryId)
        /\ \A i \in RowsOf("MorphismMapping", lastOp.id) :
              /\ MemberOf(db[i].data.sourceMorphismId, db[lastOp.id].data.sourceCategoryId)
              /\ MemberOf(db[i].data.targetMorphismId, db[lastOp.id].data.targetCategoryId)

----------------------------------------------------------------------------
(* SpecLate: the caller of the builder goes on creating morphisms after    *)
(* the builder has been used                                               *)

NextLate ==
    \/ Untouched /\ db = <<>> /\ AttachStep
    \/ Untouched /\ NoneYet("Object") /\ CreateCategoryStep
    \/ Untouched /\ UserMorphisms(db) = {} /\ CreateObjectStep
    \/ Selected /\ CreateMorphismStep
    \/ SelectStoreStep
    \/ SelectSourceStep
    \/ SelectTargetStep
    \/ MapMorphismStep
    \/ ValidateStep

SpecLate == Init /\ [][NextLate]_vars

(* the derivation over the categories' members stored now *)
FreshDerivation ==
    computeDerivedMappings(morMap, manual, Listing(bSource).morphisms,
                           Listing(bTarget).morphisms)

(* C35: validate() derives and checks against the members the categories   *)
(* have when it is called: its derived mappings and its conflicts are      *)
(* those computed from the morphisms stored in the two categories now,     *)
(* also for a morphism created after an earlier validate().                *)
C35_ValidateSeesCurrentMembers ==
    (lastOp.op = "validate" /\ Ready) =>
        /\ derived = FreshDerivation.derived
        /\ lastOp.b = FreshDerivation.conflicts
        /\ lastOp.a = (FreshDerivation.conflicts = <<>>)

----------------------------------------------------------------------------
(* mapObject against the declarations of the moment *)

(* C36: mapObject(source, target) throws only if a morphism mapping        *)
(* declared at the time of the call proposes another target for source.    *)
C36_RejectsOnlyCurrentConflicts ==
    (lastOp.op = "mapObject" /\ outcome = "throw") =>
        \E p \in AllProposals : p[1] = lastOp.a /\ p[2] # lastOp.b

----------------------------------------------------------------------------
(* Concurrent appends to different arrays of one construct *)

Keeps(field, id) == Range(db[id].data[field]) \subseteq Range(db'[id].data[field])

(* C37: an append to one back-reference array of a construct does not      *)
(* interfere with an append to another array of the same construct made by *)
(* an overlapping creation: the write of objectIds removes nothing from    *)
(* morphismIds and the write of morphismIds removes nothing from objectIds. *)
C37_OtherArraysKept ==
    [][\A p \in Callers :
          /\ Write1(p) => Keeps("morphismIds", loc[p].categoryId)
          /\ Write2(p) => Keeps("objectIds", loc[p].categoryId)]_vars

----------------------------------------------------------------------------
(* SpecUpdateRace: two callers run store.update on constructs concurrently. *)
(* A call is suspended at its two awaits, so it is two steps: _retrieve    *)
(* (r1 records the version it read) and _store (w1 the version it wrote).  *)

StoreWrite(d, id, version, data) ==
    [d EXCEPT ![id].version = incrementVersion(version), ![id].data = data]

BeginUpdate(p, id, data, s) ==
    /\ pc[p] = "idle"
    /\ IsAttached(attached, s)
    /\ UNCHANGED db
    /\ Goto(p, "retrieve", [NoLocals EXCEPT !.store = s, !.objectId = id, !.existing = data])

Retrieve(p) ==
    /\ pc[p] = "retrieve"
    /\ UNCHANGED db
    /\ IF ~Has(db, loc[p].store, loc[p].objectId)
       THEN Goto(p, "failed", loc[p])
       ELSE Goto(p, "store", [loc[p] EXCEPT !.r1 = db[loc[p].objectId].version])

Store(p) ==
    /\ pc[p] = "store"
    /\ db' = StoreWrite(db, loc[p].objectId, loc[p].r1, loc[p].existing)
    /\ Goto(p, "done", [loc[p] EXCEPT !.w1 = incrementVersion(loc[p].r1)])

NextUpdateRace ==
    \/ Quiet /\ AttachStep
    \/ Quiet /\ CreateCategoryStep
    \/ Quiet /\ CreateObjectStep
    \/ \E p \in Callers, s \in Stores, id \in Ids(db) :
          \E data \in UpdatePayloads(id) : BeginUpdate(p, id, data, s)
    \/ \E p \in Callers : Retrieve(p)
    \/ \E p \in Callers : Store(p)

SpecUpdateRace == Init /\ [][NextUpdateRace]_vars

BothUpdated(p, q) ==
    /\ p < q
    /\ pc[p] = "done"
    /\ pc[q] = "done"
    /\ loc[p].objectId = loc[q].objectId

Lower(a, b) == IF a < b THEN a ELSE b

(* C38: when two update calls on one construct have both succeeded, the    *)
(* stored version is exactly 2 above the version stored before them, and   *)
(* the two calls wrote different version numbers.                          *)
C38_TwoUpdatesTwoVersions ==
    \A p \in Callers, q \in Callers :
        BothUpdated(p, q) =>
            /\ db[loc[p].objectId].version = Lower(loc[p].r1, loc[q].r1) + 2
            /\ loc[p].w1 # loc[q].w1

----------------------------------------------------------------------------
(* Order of declaration.  The builder's Maps keep insertion order, so two  *)
(* call orders declaring the same mappings leave Maps with the same        *)
(* entries in different orders.                                            *)

Orders(m) == {t \in [DOMAIN m -> Range(m)] : Range(t) = Range(m)}

ValidFor(mappings, manualMap) ==
    computeDerivedMappings(mappings, manualMap,
                           srcCache.morphisms, tgtCache.morphisms).conflicts = <<>>

(* C39: the valid flag validate() returned on a builder with store and     *)
(* categories set is the flag it computes for every other order of the     *)
(* same declared morphism mappings and the same manual object mappings.    *)
C39_ValidityIgnoresOrder ==
    (JustValidated /\ Ready) =>
        \A mappings \in Orders(morMap), manualMap \in Orders(manual) :
            ValidFor(mappings, manualMap) = lastOp.a

(* two morphism mappings of listed morphisms are declared, their proposals *)
(* disagree, and validate() has reported it                                *)
C39_Witness ==
    /\ JustValidated
    /\ Ready
    /\ Len(morMap) = 2
    /\ \A i \in DOMAIN morMap :
          /\ Find(srcCache.morphisms, morMap[i].src) # {}
          /\ Find(tgtCache.morphisms, morMap[i].tgt) # {}
    /\ lastOp.a = FALSE

----------------------------------------------------------------------------
(* A morphism mapping whose own two endpoint proposals disagree *)

IsLoop(f) == db[f].data.sourceId = db[f].data.targetId

SelfConflicting(m) == IsLoop(m.src) /\ ~IsLoop(m.tgt)

(* C40 as claimed: when the only declared morphism mapping f -> g has f a   *)
(* loop and g with distinct endpoints, validate() on a builder with store  *)
(* and categories set returns valid = false.                               *)
C40_LoopOntoArrowRejected ==
    (JustValidated /\ Ready /\ Len(morMap) = 1 /\ SelfConflicting(morMap[1]))
        => lastOp.a = FALSE

====
